---- MODULE Spec2Model ----
(***************************************************************************)
(* Verification model of the SSA back end of the Go compiler:              *)
(*   - the stack-slot allocator, cmd/compile/internal/ssa/stackalloc.go    *)
(*     (stackalloc, Func.liveSpills, getHome, setHome, Value.isStackPhi);  *)
(*   - the MIPS rewrite rules generated from gen/MIPS.rules                *)
(*     (rewriteValueMIPS and rewriteBlockMIPS).                            *)
(* Specification Spec runs stackalloc on a bounded family of functions in  *)
(* the shape the register allocator hands over; SpecTwoRuns runs it twice  *)
(* on the same function; SpecRewrite runs the rewrite rules to their       *)
(* fixpoint on a bounded family of expressions and branches.               *)
(***************************************************************************)
EXTENDS Integers, Sequences, FiniteSets, TLC

VARIABLES
    f,          \* the function under compilation (blocks, values, names)
    pc,         \* position inside stackalloc
    visitOrder, \* liveSpills: the blocks in the order they are visited
    live,       \* liveSpills: live[b][j] = IDs live on the edge b -> b.Succs[j]
    changed,    \* liveSpills: the changed flag of the last sweep
    sweeps,     \* liveSpills: number of sweeps finished
    interfere,  \* stackalloc: interference lists, by value ID
    names,      \* stackalloc: the name chosen for each value ID
    phiArg,     \* stackalloc: which values are arguments of stack phis
    RegAlloc,   \* f.RegAlloc: the home of each value ID
    locations,  \* stackalloc: per type, the stack slots allocated so far
    slots,      \* stackalloc: per value, its index into locations[type], or -1
    cursor,     \* stackalloc: position of the slot-picking loop
    autos,      \* number of stack variables handed out by fe.Auto
    run,        \* which run of stackalloc on f this is (1 or 2)
    firstHome,  \* f.RegAlloc as the first run left it
    change,     \* rewriting: the change flag of the pass under way
    bcur,       \* rewriting: position of the pass in the order of the blocks
    passes,     \* rewriting: number of the pass under way
    f0,         \* rewriting: the function as it was handed over
    fixed       \* rewriting: the function as the last pass without change left it

vars == <<f, pc, visitOrder, live, changed, sweeps, interfere, names, phiArg, RegAlloc,
          locations, slots, cursor, autos, run, firstHome,
          change, bcur, passes, f0, fixed>>

\* The variables of stackalloc without f and pc, and those of the rewriting.
saVars == <<visitOrder, live, changed, sweeps, interfere, names, phiArg, RegAlloc,
            locations, slots, cursor, autos, run, firstHome>>
rwVars == <<change, bcur, passes, f0, fixed>>

----------------------------------------------------------------------------
(* Bounds of the model. *)
NumTypes == 2
MaxSweeps == 6
NumConsts == 12
MaxPasses == 8

(* TypeMem, the type of memory values. *)
TypeMem == 0

Types == 1..NumTypes

----------------------------------------------------------------------------
(* Integers of the rewrite rules.  An AuxInt is an int64; it is held as the *)
(* pair <<hi, lo>> of its two 32-bit halves, each read as an int32, so that *)
(* int32(c) is lo, and int64(int32(x)) is the pair whose hi is the sign of  *)
(* x.  All arithmetic wraps around as the Go operators do.                  *)

MaxInt32 == 2 * (2 ^ 30 - 1) + 1
MinInt32 == -MaxInt32 - 1
Int32 == MinInt32..MaxInt32

\* int64(int32(x)) and int64(uint32(x)) of the 32-bit pattern x.
SignExt32(x) == <<IF x < 0 THEN -1 ELSE 0, x>>
ZeroExt32(x) == <<0, x>>
\* The AuxInt written by a literal of the rules.
Lit(n) == SignExt32(n)
\* int32(c) and uint32(c) of an AuxInt c: the low half (as a bit pattern).
Lo(c) == c[2]
Hi(c) == c[1]

\* The n bytes of the two's complement pattern x, least significant first.
RECURSIVE Bytes(_, _)
Bytes(x, n) == IF n = 0 THEN <<>> ELSE <<x % 256>> \o Bytes(x \div 256, n - 1)

\* The int32 with the four bytes bs.
FromBytes(bs) ==
    bs[1] + 256 * bs[2] + 65536 * bs[3] +
    16777216 * (IF bs[4] >= 128 THEN bs[4] - 256 ELSE bs[4])

\* x + y of two byte strings of equal length, with carry c, the carry out dropped.
RECURSIVE AddBytes(_, _, _)
AddBytes(xs, ys, c) ==
    IF xs = <<>> THEN <<>>
    ELSE LET t == Head(xs) + Head(ys) + c
         IN  <<t % 256>> \o AddBytes(Tail(xs), Tail(ys), t \div 256)

\* x * y of two byte strings of length n, the low n bytes: column k sums
\* x[i] * y[k - i] and the carry of column k - 1.
RECURSIVE Column(_, _, _, _)
Column(xs, ys, k, i) ==
    IF i > k THEN 0 ELSE xs[i] * ys[k + 1 - i] + Column(xs, ys, k, i + 1)

RECURSIVE MulBytes(_, _, _, _)
MulBytes(xs, ys, k, c) ==
    IF k > Len(xs) THEN <<>>
    ELSE LET t == Column(xs, ys, k, 1) + c
         IN  <<t % 256>> \o MulBytes(xs, ys, k + 1, t \div 256)

\* int32 arithmetic.
Add32(x, y) == FromBytes(AddBytes(Bytes(x, 4), Bytes(y, 4), 0))
Not32(x) == -1 - x
Neg32(x) == Add32(Not32(x), 1)
Sub32(x, y) == Add32(x, Neg32(y))
Mul32(x, y) == FromBytes(MulBytes(Bytes(x, 4), Bytes(y, 4), 1, 0))

RECURSIVE And32(_, _)
And32(x, y) ==
    IF x = 0 \/ y = 0 THEN 0
    ELSE IF x = -1 THEN y
    ELSE IF y = -1 THEN x
    ELSE (x % 2) * (y % 2) + 2 * And32(x \div 2, y \div 2)

Or32(x, y) == Not32(And32(Not32(x), Not32(y)))
Xor32(x, y) == And32(Or32(x, y), Not32(And32(x, y)))

\* uint32(x) < uint32(y).
LessU32(x, y) == IF (x < 0) = (y < 0) THEN x < y ELSE y < 0

\* uint32(x) << uint32(s), uint32(x) >> uint32(s) and int32(x) >> uint32(s):
\* a count of 32 or more (a negative s is one) shifts every bit out.
Shl32(x, s) ==
    IF s < 0 \/ s >= 32 THEN 0
    ELSE IF s = 0 THEN x
    ELSE IF s = 31 THEN (IF x % 2 = 1 THEN MinInt32 ELSE 0)
    ELSE LET h == 2 ^ (31 - s)
         IN  (x % h) * (2 ^ s) + (IF (x \div h) % 2 = 1 THEN MinInt32 ELSE 0)

Sar32(x, s) ==
    IF s < 0 \/ s >= 31 THEN (IF x < 0 THEN -1 ELSE 0) ELSE x \div (2 ^ s)

Shr32(x, s) ==
    IF s < 0 \/ s >= 32 THEN 0
    ELSE IF s = 0 \/ x >= 0 THEN Sar32(x, s)
    ELSE Sar32((x \div 2) + 1073741824 + 1073741824, s - 1)

\* int32(x) / int32(y) and int32(x) % int32(y) for y # 0: Go truncates the
\* quotient toward zero, and MinInt32 / -1 wraps around.
Abs(x) == IF x < 0 THEN -x ELSE x
Quo32(x, y) ==
    IF y = -1 THEN Neg32(x)
    ELSE IF x = MinInt32
         THEN (IF y = MinInt32 THEN 1
               ELSE IF y = 1 THEN x
               ELSE LET q == MaxInt32 \div Abs(y)
                        r == MaxInt32 % Abs(y)
                        qq == IF r + 1 = Abs(y) THEN q + 1 ELSE q
                    IN  IF y < 0 THEN qq ELSE -qq)
    ELSE IF y = MinInt32 THEN 0
    ELSE IF (x < 0) = (y < 0) THEN Abs(x) \div Abs(y) ELSE -(Abs(x) \div Abs(y))
Rem32(x, y) ==
    IF y = -1 \/ y = 1 THEN 0 ELSE Sub32(x, Mul32(Quo32(x, y), y))

\* uint32(x) / uint32(y) and uint32(x) % uint32(y) for y # 0.
QuoU32(x, y) ==
    IF y < 0 THEN (IF LessU32(x, y) THEN 0 ELSE 1)
    ELSE IF x >= 0 THEN x \div y
    ELSE LET half == Shr32(x, 1)
             q == half \div y
             r == half % y
             bit == x % 2
         IN  IF r >= y - r - bit THEN Add32(Add32(q, q), 1) ELSE Add32(q, q)
RemU32(x, y) == Sub32(x, Mul32(QuoU32(x, y), y))

\* int64 operators on AuxInts.
And64(c, d) == <<And32(c[1], d[1]), And32(c[2], d[2])>>
Or64(c, d) == <<Or32(c[1], d[1]), Or32(c[2], d[2])>>
Xor64(c, d) == <<Xor32(c[1], d[1]), Xor32(c[2], d[2])>>
Not64(c) == <<Not32(c[1]), Not32(c[2])>>
\* (c * d) >> 32: the high half of the low 64 bits of the product, sign-extended.
MulShift32(c, d) ==
    LET cs == Bytes(c[2], 4) \o Bytes(c[1], 4)
        ds == Bytes(d[2], 4) \o Bytes(d[1], 4)
    IN  SignExt32(FromBytes(SubSeq(MulBytes(cs, ds, 1, 0), 5, 8)))

\* isPowerOfTwo(int64(uint32(c))) and log2(int64(uint32(c))).
isPowerOfTwo(c) == Lo(c) = MinInt32 \/ \E k \in 0..30 : Lo(c) = 2 ^ k
log2(c) == IF Lo(c) = MinInt32 THEN 31 ELSE CHOOSE k \in 0..30 : Lo(c) = 2 ^ k

----------------------------------------------------------------------------
(* Locations.  A LocalSlot is {N, Type, Off}; N is a node of the front end. *)
LocalSlot(n, t, off) == [N |-> n, Type |-> t, Off |-> off]

NilNode == <<"nil", 0>>
NilLoc == LocalSlot(NilNode, 0, 0)
Register(k) == LocalSlot(<<"reg", k>>, 0, 0)
IsRegister(h) == h.N[1] = "reg"

(* fe.Auto(t): a fresh stack variable of type t. *)
Auto(n) == <<"auto", n>>

----------------------------------------------------------------------------
(* The functions stackalloc is run on.  Two control-flow graphs, each      *)
(* with the values the register allocator leaves for a spilled function:   *)
(* one pre-spilled input argument a, two ordinary spills s1 = StoreReg r1  *)
(* (entry block) and s2 = StoreReg r2 (a side block), a stack phi p in the *)
(* join block whose i-th argument is a StoreReg q_i at the end of the i-th *)
(* predecessor, a memory phi and a register phi beside it, and at most one *)
(* LoadReg of each of a, s1, s2 and p at a place its definition dominates. *)

Shapes == {"loop", "join"}

\* Succs of every block, by block ID.  "loop": a loop whose header is block 2;
\* "join": a three-way join in block 6.
ShapeSuccs(sh) ==
    IF sh = "loop"
    THEN << <<2>>, <<3, 4>>, <<2>>, <<>> >>
    ELSE << <<2, 3>>, <<6>>, <<4, 5>>, <<6>>, <<6>>, <<>> >>

\* Preds of every block, in the order the edges were added.
ShapePreds(sh) ==
    IF sh = "loop"
    THEN << <<>>, <<1, 3>>, <<2>>, <<2>> >>
    ELSE << <<>>, <<1>>, <<1>>, <<3>>, <<3>>, <<2, 4, 5>> >>

\* The block holding the phis, and the side block holding s2.
JoinBlock(sh) == IF sh = "loop" THEN 2 ELSE 6
SideBlock(sh) == 3

\* The blocks strictly dominated by block b.
Dominated(sh, b) ==
    IF sh = "loop"
    THEN (IF b = 1 THEN {2, 3, 4} ELSE IF b = 2 THEN {3, 4} ELSE {})
    ELSE (IF b = 1 THEN {2, 3, 4, 5, 6} ELSE IF b = 3 THEN {4, 5} ELSE {})

\* Value IDs, in the order the values were created.
ValueOrder ==
    <<"a", "r1", "s1", "r2", "s2", "p", "la", "ls1", "ls2", "lp", "memphi", "regphi">>
IdOf(nm) == CHOOSE i \in 1..Len(ValueOrder) : ValueOrder[i] = nm
idA == IdOf("a")
idR1 == IdOf("r1")
idS1 == IdOf("s1")
idR2 == IdOf("r2")
idS2 == IdOf("s2")
idP == IdOf("p")
idLA == IdOf("la")
idLS1 == IdOf("ls1")
idLS2 == IdOf("ls2")
idLP == IdOf("lp")
idMemPhi == IdOf("memphi")
idRegPhi == IdOf("regphi")
\* The value stored for the i-th phi argument, and the StoreReg q_i that stores it.
idRQ(i) == Len(ValueOrder) + 2 * i - 1
idQ(i) == Len(ValueOrder) + 2 * i
\* f.NumValues(): one past the largest value ID in use.
NumValues == idQ(Len(ShapePreds("join")[JoinBlock("join")]))
IDs == 1..NumValues

\* A place for a LoadReg: a block, and before ("early") or after ("late") the
\* block's own StoreReg.  <<0, "none">> is no LoadReg at all.
NoLoad == <<0, "none">>
Places(sh, blocks) ==
    {<<b, "early">> : b \in blocks} \cup
    {<<b, "late">> : b \in blocks \cap {1, SideBlock(sh)}}

LoadPlacesA(sh) == {NoLoad, <<SideBlock(sh), "late">>, <<JoinBlock(sh), "early">>}
LoadPlacesS1(sh) == {NoLoad} \cup Places(sh, {SideBlock(sh), JoinBlock(sh)})
LoadPlacesS2(sh) ==
    {NoLoad, <<SideBlock(sh), "late">>} \cup
    {<<b, "early">> : b \in Dominated(sh, SideBlock(sh)) \cap {4}}
LoadPlacesP(sh) ==
    {NoLoad, <<JoinBlock(sh), "early">>} \cup
    {<<b, "late">> : b \in Dominated(sh, JoinBlock(sh)) \cap {SideBlock(sh)}}

Value(id, op, t, args, b) ==
    [ID |-> id, Op |-> op, Type |-> t, Args |-> args, Block |-> b,
     Aux |-> NilNode, AuxInt |-> 0]

\* The named variables: x is the input argument's own variable, y a local.
NameX == LocalSlot(<<"x", 0>>, 1, 0)
NameY == LocalSlot(<<"y", 0>>, 1, 0)

\* f.Names and f.NamedValues.
NameTables ==
    << [Names |-> <<>>, NamedValues |-> [n \in {} |-> <<>>]],
      [Names |-> <<NameX>>, NamedValues |-> [n \in {NameX} |-> <<idR1>>]],
      [Names |-> <<NameX, NameY>>,
       NamedValues |-> [n \in {NameX, NameY} |->
                           IF n = NameX THEN <<idR1>> ELSE <<idR1, idR2>>]],
      [Names |-> <<NameY, NameX>>,
       NamedValues |-> [n \in {NameX, NameY} |->
                           IF n = NameX THEN <<idR2, idR1>> ELSE <<idR1>>]],
      [Names |-> <<NameY>>, NamedValues |-> [n \in {NameY} |-> <<idP, idR2>>]] >>

Opt(c, x) == IF c THEN <<x>> ELSE <<>>

\* The function of shape sh with the given types, LoadReg places and names.
MakeFunc(sh, t1, t2, pa, p1, p2, pp, nt) ==
    LET succs == ShapeSuccs(sh)
        preds == ShapePreds(sh)
        J == JoinBlock(sh)
        S == SideBlock(sh)
        nPreds == Len(preds[J])
        PredIndex(b) == CHOOSE i \in 1..nPreds : preds[J][i] = b
        Loads(b, w) ==
            Opt(pa = <<b, w>>, idLA) \o Opt(p1 = <<b, w>>, idLS1) \o
            Opt(p2 = <<b, w>>, idLS2) \o Opt(pp = <<b, w>>, idLP)
        BlockValues(b) ==
            Opt(b = 1, idA) \o
            Opt(b = J, idMemPhi) \o Opt(b = J, idRegPhi) \o Opt(b = J, idP) \o
            Loads(b, "early") \o
            (IF b = 1 THEN <<idR1, idS1>> ELSE <<>>) \o
            (IF b = S THEN <<idR2, idS2>> ELSE <<>>) \o
            Loads(b, "late") \o
            (IF \E i \in 1..nPreds : preds[J][i] = b
                THEN <<idRQ(PredIndex(b)), idQ(PredIndex(b))>> ELSE <<>>)
        val(id) ==
            CASE id = idA -> [Value(id, "Arg", 1, <<>>, 1) EXCEPT !.Aux = NameX.N]
              [] id = idR1 -> Value(id, "Op", t1, <<>>, 1)
              [] id = idS1 -> Value(id, "StoreReg", t1, <<idR1>>, 1)
              [] id = idR2 -> Value(id, "Op", t2, <<>>, S)
              [] id = idS2 -> Value(id, "StoreReg", t2, <<idR2>>, S)
              [] id = idP -> Value(id, "Phi", 1, [i \in 1..nPreds |-> idQ(i)], J)
              [] id = idLA -> Value(id, "LoadReg", 1, <<idA>>, pa[1])
              [] id = idLS1 -> Value(id, "LoadReg", t1, <<idS1>>, p1[1])
              [] id = idLS2 -> Value(id, "LoadReg", t2, <<idS2>>, p2[1])
              [] id = idLP -> Value(id, "LoadReg", 1, <<idP>>, pp[1])
              [] id = idMemPhi -> Value(id, "Phi", TypeMem, <<>>, J)
              [] id = idRegPhi -> Value(id, "Phi", 1, <<>>, J)
              [] \E i \in 1..nPreds : id = idRQ(i) ->
                    Value(id, "Op", 1, <<>>, preds[J][(id - Len(ValueOrder) + 1) \div 2])
              [] \E i \in 1..nPreds : id = idQ(i) ->
                    Value(id, "StoreReg", 1, <<id - 1>>, preds[J][(id - Len(ValueOrder)) \div 2])
              [] OTHER -> Value(id, "Invalid", 1, <<>>, 0)
    IN  [Entry |-> 1,
         Blocks |-> [b \in 1..Len(succs) |->
                        [ID |-> b, Succs |-> succs[b], Preds |-> preds[b],
                         Values |-> BlockValues(b)]],
         Values |-> [id \in IDs |-> val(id)],
         Names |-> NameTables[nt].Names,
         NamedValues |-> NameTables[nt].NamedValues]

\* Where the input argument stands in the entry block: first, or after the
\* spill s1 (the order of the values of a block is not fixed before scheduling).
ArgPlaces == {"first", "afterStore"}

RECURSIVE Without(_, _)
Without(vs, x) ==
    IF vs = <<>> THEN <<>>
    ELSE (IF Head(vs) = x THEN <<>> ELSE <<Head(vs)>>) \o Without(Tail(vs), x)

RECURSIVE InsertAfter(_, _, _)
InsertAfter(vs, y, x) ==
    IF vs = <<>> THEN <<>>
    ELSE (IF Head(vs) = y THEN <<y, x>> ELSE <<Head(vs)>>) \o InsertAfter(Tail(vs), y, x)

\* The function fn with its input argument at the given place of the entry block.
PlaceArg(fn, place) ==
    IF place = "first" THEN fn
    ELSE [fn EXCEPT !.Blocks[fn.Entry].Values = InsertAfter(Without(@, idA), idS1, idA)]

\* The name tables of the functions whose first phi argument is stored early:
\* no names; r1 named after the argument's variable; the phi and r1 both y.
EarlyStoreNames ==
    << NameTables[1], NameTables[2],
       [Names |-> <<NameY>>, NamedValues |-> [n \in {NameY} |-> <<idP, idR1>>]] >>

\* The function fn with the StoreReg of the phi argument of the entry block
\* (and the value it stores) ahead of the spill s1, and with the names of tbl.
StorePhiArgEarly(fn, tbl) ==
    LET vs == Without(Without(fn.Blocks[fn.Entry].Values, idRQ(1)), idQ(1))
    IN  [fn EXCEPT !.Blocks[fn.Entry].Values =
                        InsertAfter(InsertAfter(vs, idA, idRQ(1)), idRQ(1), idQ(1)),
                   !.Names = tbl.Names,
                   !.NamedValues = tbl.NamedValues]

\* f.RegAlloc as the register allocator leaves it: a register for every value
\* that has one, nothing for spills, stack phis and input arguments.
InitialRegAlloc(fn) ==
    [id \in IDs |->
        IF fn.Values[id].Op \in {"Op", "LoadReg"} \/ id = idRegPhi
        THEN Register(id) ELSE NilLoc]

----------------------------------------------------------------------------
(* Helpers of the ssa package. *)

\* postorder(f): the blocks in depth-first postorder from the entry block.
RECURSIVE PostorderVisit(_, _, _, _)
PostorderVisit(fn, b, i, st) ==
    \* st.seen: blocks entered so far, st.order: blocks finished so far
    IF i > Len(fn.Blocks[b].Succs)
    THEN [st EXCEPT !.order = Append(@, b)]
    ELSE LET c == fn.Blocks[b].Succs[i]
         IN  IF c \in st.seen
             THEN PostorderVisit(fn, b, i + 1, st)
             ELSE PostorderVisit(fn, b, i + 1,
                     PostorderVisit(fn, c, 1, [st EXCEPT !.seen = @ \cup {c}]))

postorder(fn) ==
    PostorderVisit(fn, fn.Entry, 1, [seen |-> {fn.Entry}, order |-> <<>>]).order

getHome(ra, vid) == ra[vid]

setHome(ra, vid, loc) == [ra EXCEPT ![vid] = loc]

\* Value.isStackPhi: a phi, not of memory type, that has no home.
isStackPhi(fn, ra, vid) ==
    /\ fn.Values[vid].Op = "Phi"
    /\ fn.Values[vid].Type # TypeMem
    /\ ra[vid] = NilLoc

\* The live set of the last successor edge of block b alone.
LiveAtEndLastEdge(lv, b) == IF Len(lv[b]) = 0 THEN {} ELSE lv[b][Len(lv[b])]
\* The union of the live sets of all successor edges of block b.
LiveAtEnd(lv, b) == UNION {lv[b][j] : j \in 1..Len(lv[b])}

----------------------------------------------------------------------------
(* Func.liveSpills. *)

\* The backward walk over the values of a block, from index i down to 1.
\* st.s: the live set, st.phis: the stack phis met so far.
RECURSIVE LiveWalk(_, _, _, _, _)
LiveWalk(fn, ra, vs, i, st) ==
    IF i = 0 THEN st
    ELSE LET v == fn.Values[vs[i]]
         IN  LiveWalk(fn, ra, vs, i - 1,
                CASE v.Op = "StoreReg" -> [st EXCEPT !.s = @ \ {v.ID}]
                  [] v.Op = "LoadReg" -> [st EXCEPT !.s = @ \cup {v.Args[1]}]
                  [] isStackPhi(fn, ra, v.ID) ->
                        [s |-> st.s \ {v.ID}, phis |-> Append(st.phis, v.ID)]
                  [] OTHER -> st)

\* Index of b among p's successors: the first match, or one past the end.
SuccIndex(fn, p, b) ==
    LET succs == fn.Blocks[p].Succs
    IN  IF \E j \in 1..Len(succs) : succs[j] = b
        THEN CHOOSE j \in 1..Len(succs) :
                succs[j] = b /\ \A k \in 1..(j - 1) : succs[k] # b
        ELSE Len(succs) + 1

\* The loop over the predecessors of b, from the i-th on.
\* st.live: the live sets, st.changed: whether one of them grew.
RECURSIVE GrowPreds(_, _, _, _, _, _)
GrowPreds(fn, b, s, phis, i, st) ==
    IF i > Len(fn.Blocks[b].Preds) THEN st
    ELSE LET p == fn.Blocks[b].Preds[i]
             j == SuccIndex(fn, p, b)
             t == st.live[p][j] \cup s \cup
                  {fn.Values[phis[k]].Args[i] : k \in 1..Len(phis)}
         IN  IF Cardinality(t) = Cardinality(st.live[p][j])
             THEN GrowPreds(fn, b, s, phis, i + 1, st)
             ELSE GrowPreds(fn, b, s, phis, i + 1,
                     [live |-> [st.live EXCEPT ![p][j] = t], changed |-> TRUE])

\* A visit that reports a change whether or not a live set grew.
VisitBlockAlwaysChanged(fn, ra, st, b) ==
    LET w == LiveWalk(fn, ra, fn.Blocks[b].Values, Len(fn.Blocks[b].Values),
                      [s |-> LiveAtEnd(st.live, b), phis |-> <<>>])
    IN  [GrowPreds(fn, b, w.s, w.phis, 1, st) EXCEPT !.changed = TRUE]
\* One iteration of the loop over the postorder: block b is visited.
VisitBlock(fn, ra, st, b) ==
    LET w == LiveWalk(fn, ra, fn.Blocks[b].Values, Len(fn.Blocks[b].Values),
                      [s |-> LiveAtEnd(st.live, b), phis |-> <<>>])
    IN  GrowPreds(fn, b, w.s, w.phis, 1, st)

\* One sweep "for _, b := range po", from the i-th block of po on.
RECURSIVE SweepFrom(_, _, _, _, _)
SweepFrom(fn, ra, po, i, st) ==
    IF i > Len(po) THEN st
    ELSE SweepFrom(fn, ra, po, i + 1, VisitBlock(fn, ra, st, po[i]))

----------------------------------------------------------------------------
(* stackalloc. *)

\* The interference edges one spill-class value v adds against the live set s.
AddEdges(fn, itf, v, s) ==
    LET same == {id \in s : fn.Values[v].Type = fn.Values[id].Type}
    IN  [id \in IDs |->
            IF id = v THEN itf[id] \cup same
            ELSE IF id \in same THEN itf[id] \cup {v}
            ELSE itf[id]]

\* The backward walk over the values of a block that builds the interference
\* graph.  st.s: the live set, st.itf: the interference lists.
RECURSIVE InterfereWalk(_, _, _, _, _)
InterfereWalk(fn, ra, vs, i, st) ==
    IF i = 0 THEN st
    ELSE LET v == fn.Values[vs[i]]
         IN  InterfereWalk(fn, ra, vs, i - 1,
                CASE v.Op = "StoreReg" \/ isStackPhi(fn, ra, v.ID) ->
                        [s |-> st.s \ {v.ID},
                         itf |-> AddEdges(fn, st.itf, v.ID, st.s \ {v.ID})]
                  [] v.Op = "LoadReg" -> [st EXCEPT !.s = @ \cup {v.Args[1]}]
                  [] OTHER -> st)

\* The loop over f.Blocks, from the b-th block on.
RECURSIVE InterfereBlocks(_, _, _, _, _)
InterfereBlocks(fn, ra, lv, b, itf) ==
    IF b > Len(fn.Blocks) THEN itf
    ELSE InterfereBlocks(fn, ra, lv, b + 1,
            InterfereWalk(fn, ra, fn.Blocks[b].Values, Len(fn.Blocks[b].Values),
                          [s |-> LiveAtEnd(lv, b), itf |-> itf]).itf)

\* The order in which the names are visited: f.Names, not a range over the
\* map f.NamedValues (whose order is order).
NameOrderOfMap(fn, order) == order
NameOrder(fn, order) == fn.Names

\* names[v.ID] = name for every name in turn and every value of that name.
RECURSIVE NameValues(_, _, _, _)
NameValues(nm, name, vs, i) ==
    IF i > Len(vs) THEN nm
    ELSE NameValues([nm EXCEPT ![vs[i]] = name], name, vs, i + 1)

RECURSIVE BuildNames(_, _, _, _)
BuildNames(fn, order, i, nm) ==
    IF i > Len(order) THEN nm
    ELSE BuildNames(fn, order, i + 1,
            NameValues(nm, order[i], fn.NamedValues[order[i]], 1))

\* All values of f in the order of the loops over f.Blocks and b.Values.
RECURSIVE ValuesFrom(_, _)
ValuesFrom(fn, b) ==
    IF b > Len(fn.Blocks) THEN <<>>
    ELSE fn.Blocks[b].Values \o ValuesFrom(fn, b + 1)

AllValues(fn) == ValuesFrom(fn, 1)

\* The arguments of the stack phis.
PhiArgs(fn, ra) ==
    LET vs == AllValues(fn)
    IN  [id \in IDs |->
            \E k \in 1..Len(vs) :
                /\ isStackPhi(fn, ra, vs[k])
                /\ \E n \in 1..Len(fn.Values[vs[k]].Args) : fn.Values[vs[k]].Args[n] = id]

\* Homes of the input arguments: the loop over f.Entry.Values, from index i on.
RECURSIVE AllocArgs(_, _, _)
AllocArgs(fn, ra, i) ==
    LET vs == fn.Blocks[fn.Entry].Values
    IN  IF i > Len(vs) THEN ra
        ELSE LET v == fn.Values[vs[i]]
             IN  IF v.Op # "Arg" THEN AllocArgs(fn, ra, i + 1)
                 ELSE AllocArgs(fn, setHome(ra, v.ID, LocalSlot(v.Aux, v.Type, v.AuxInt)),
                                i + 1)

\* Whether the slot-picking loop picks a slot for value vid.
NeedsSlotPhiArgsToo(fn, ra, pa, vid) ==
    fn.Values[vid].Op = "StoreReg" \/ isStackPhi(fn, ra, vid)
NeedsSlot(fn, ra, pa, vid) ==
    /\ fn.Values[vid].Op = "StoreReg" \/ isStackPhi(fn, ra, vid)
    /\ ~pa[vid]

\* The values whose interference counts for v: v, and for a phi its arguments too.
CoalescedAlone(fn, vid) == {vid}
Coalesced(fn, vid) ==
    {vid} \cup (IF fn.Values[vid].Op = "Phi"
                THEN {fn.Values[vid].Args[n] : n \in 1..Len(fn.Values[vid].Args)}
                ELSE {})

InterferingAlone(fn, itf, vid) == itf[vid]
InterferingSpills(fn, itf, vid) ==
    {x \in UNION {itf[y] : y \in Coalesced(fn, vid)} : fn.Values[x].Op # "Arg"}
Interfering(fn, itf, vid) == UNION {itf[x] : x \in Coalesced(fn, vid)}

\* The name tried for v: that of the stored value for a StoreReg, its own for a phi.
NameForOwn(fn, nm, vid) == nm[vid]
NameFor(fn, nm, vid) ==
    IF fn.Values[vid].Op = "StoreReg" THEN nm[fn.Values[vid].Args[1]] ELSE nm[vid]

\* Whether v takes its name as home: it has a name of its type, and no value
\* interfering with it (or with its arguments) has that home already.
UsesNameAnyType(fn, ra, itf, nm, vid) ==
    LET name == NameFor(fn, nm, vid)
    IN  /\ name.N # NilNode
        /\ \A id \in Interfering(fn, itf, vid) :
              ~(getHome(ra, id) # NilLoc /\ getHome(ra, id) = name)
UsesName(fn, ra, itf, nm, vid) ==
    LET name == NameFor(fn, nm, vid)
    IN  /\ name.N # NilNode
        /\ fn.Values[vid].Type = name.Type
        /\ \A id \in Interfering(fn, itf, vid) :
              ~(getHome(ra, id) # NilLoc /\ getHome(ra, id) = name)

\* setHome of v and, for a phi, of its arguments.
SetHomesAlone(fn, ra, vid, loc) == setHome(ra, vid, loc)
SetHomes(fn, ra, vid, loc) ==
    [id \in IDs |-> IF id \in Coalesced(fn, vid) THEN loc ELSE ra[id]]

\* Positions of locs marked used: the slots of the interfering values.
UsedSlotsNone(fn, itf, sl, vid) == {}
UsedSlots(fn, itf, sl, vid) ==
    {sl[x] : x \in {y \in Interfering(fn, itf, vid) : sl[y] >= 0}}

\* The first position of locs that is not used; Len(locs) when all are.
FirstUnusedNone(used, n) == n
FirstUnused(used, n) ==
    IF \E i \in 0..(n - 1) : i \notin used
    THEN CHOOSE i \in 0..(n - 1) : i \notin used /\ \A k \in 0..(i - 1) : k \in used
    ELSE n

----------------------------------------------------------------------------
(* Initial state: stackalloc is entered with a function of the family. *)

Params ==
    UNION {
        [sh : {sh}, t1 : Types, t2 : Types, pa : LoadPlacesA(sh), p1 : LoadPlacesS1(sh),
         p2 : LoadPlacesS2(sh), pp : LoadPlacesP(sh), nt : 1..Len(NameTables)]
        : sh \in Shapes}

\* The places of the input argument tried with the parameters p: both for the
\* functions whose first name table entry names r1 after the argument's
\* variable and that load neither s2 nor the phi, the first place otherwise.
ArgPlacesOf(p) ==
    IF p.nt = 2 /\ p.p2 = NoLoad /\ p.pp = NoLoad /\ p.t2 = 1
    THEN ArgPlaces ELSE {"first"}

\* The functions in which a spill is stored and loaded back in the entry
\* block while the first argument of the phi of the loop header, stored
\* ahead of it, waits for the end of the block.
EarlyStoreParams ==
    [sh : {"loop"}, t1 : Types, t2 : {1}, pa : LoadPlacesA("loop"), p1 : {<<1, "late">>},
     p2 : {NoLoad}, pp : {NoLoad, <<JoinBlock("loop"), "early">>},
     nt : 1..Len(EarlyStoreNames)]

\* The function, its postorder and its values in block order.
F == f
PO == postorder(F)
VS == AllValues(F)

\* All orders a range over the map f.NamedValues can deliver its keys in.
MapOrders(fn) ==
    LET n == Len(fn.Names)
        keys == {fn.Names[i] : i \in 1..n}
    IN  {o \in [1..n -> keys] : \A i, j \in 1..n : o[i] = o[j] => i = j}

EmptyLive(fn) == [b \in 1..Len(fn.Blocks) |-> [j \in 1..Len(fn.Blocks[b].Succs) |-> {}]]
NoInterference == [id \in IDs |-> {}]
NoNames == [id \in IDs |-> NilLoc]
NoPhiArgs == [id \in IDs |-> FALSE]
NoLocations == [t \in {TypeMem} \cup Types |-> <<>>]
NoSlots == [id \in IDs |-> -1]

\* stackalloc is entered: nothing computed yet, f.RegAlloc as handed over.
Entered ==
    /\ pc = "liveSpills"
    /\ live = EmptyLive(F)
    /\ changed = FALSE
    /\ sweeps = 0
    /\ interfere = NoInterference
    /\ names = NoNames
    /\ phiArg = NoPhiArgs
    /\ RegAlloc = InitialRegAlloc(F)
    /\ locations = NoLocations
    /\ slots = NoSlots
    /\ cursor = 1
    /\ autos = 0
    /\ run = 1
    /\ firstHome = InitialRegAlloc(F)
    /\ change = FALSE
    /\ bcur = 0
    /\ passes = 0
    /\ f0 = <<>>
    /\ fixed = <<>>

Init ==
    /\ \/ \E p \in Params : \E place \in ArgPlacesOf(p) :
             f = PlaceArg(MakeFunc(p.sh, p.t1, p.t2, p.pa, p.p1, p.p2, p.pp, p.nt), place)
       \/ \E p \in EarlyStoreParams :
             f = StorePhiArgEarly(MakeFunc(p.sh, p.t1, p.t2, p.pa, p.p1, p.p2, p.pp, 1),
                                  EarlyStoreNames[p.nt])
    /\ visitOrder = postorder(F)
    /\ Entered

----------------------------------------------------------------------------
(* Actions. *)

\* liveSpills, one sweep over the postorder; another sweep follows if a set
\* grew, otherwise liveSpills returns.
LiveSweepOnce ==
    /\ pc = "liveSpills"
    /\ sweeps < MaxSweeps
    /\ LET r == SweepFrom(F, RegAlloc, visitOrder, 1, [live |-> live, changed |-> FALSE])
       IN  /\ live' = r.live
           /\ changed' = r.changed
           /\ pc' = "interfere"
    /\ sweeps' = sweeps + 1
    /\ UNCHANGED <<f, visitOrder, interfere, names, phiArg, RegAlloc, locations, slots,
                   cursor, autos, run, firstHome>>
    /\ UNCHANGED rwVars

LiveSweep ==
    /\ pc = "liveSpills"
    /\ sweeps < MaxSweeps
    /\ LET r == SweepFrom(F, RegAlloc, visitOrder, 1, [live |-> live, changed |-> FALSE])
       IN  /\ live' = r.live
           /\ changed' = r.changed
           /\ pc' = IF r.changed THEN "liveSpills" ELSE "interfere"
    /\ sweeps' = sweeps + 1
    /\ UNCHANGED <<f, visitOrder, interfere, names, phiArg, RegAlloc, locations, slots,
                   cursor, autos, run, firstHome>>
    /\ UNCHANGED rwVars

\* stackalloc, the interference graph.
BuildInterference ==
    /\ pc = "interfere"
    /\ interfere' = InterfereBlocks(F, RegAlloc, live, 1, interfere)
    /\ pc' = "names"
    /\ UNCHANGED <<f, visitOrder, live, changed, sweeps, names, phiArg, RegAlloc, locations,
                   slots, cursor, autos, run, firstHome>>
    /\ UNCHANGED rwVars

\* stackalloc, the map from values to names.  order is the order in which this
\* process would deliver the keys of the map f.NamedValues.
BuildNameMap ==
    /\ pc = "names"
    /\ \E order \in MapOrders(F) : names' = BuildNames(F, NameOrder(F, order), 1, names)
    /\ pc' = "phiArg"
    /\ UNCHANGED <<f, visitOrder, live, changed, sweeps, interfere, phiArg, RegAlloc, locations,
                   slots, cursor, autos, run, firstHome>>
    /\ UNCHANGED rwVars

\* stackalloc, the StoreReg ops that are phi args.
MarkPhiArgs ==
    /\ pc = "phiArg"
    /\ phiArg' = PhiArgs(F, RegAlloc)
    /\ pc' = "args"
    /\ UNCHANGED <<f, visitOrder, live, changed, sweeps, interfere, names, RegAlloc, locations,
                   slots, cursor, autos, run, firstHome>>
    /\ UNCHANGED rwVars

\* stackalloc, the input arguments go to their assigned locations.
AllocateArgs ==
    /\ pc = "args"
    /\ RegAlloc' = AllocArgs(F, RegAlloc, 1)
    /\ pc' = "pick"
    /\ UNCHANGED <<f, visitOrder, live, changed, sweeps, interfere, names, phiArg, locations,
                   slots, cursor, autos, run, firstHome>>
    /\ UNCHANGED rwVars

\* The position at or after the cursor of the next value that gets a slot;
\* one past the end when there is none.
NextPick ==
    LET cand == {k \in cursor..Len(VS) : NeedsSlot(F, RegAlloc, phiArg, VS[k])}
    IN  IF cand = {} THEN Len(VS) + 1
        ELSE CHOOSE k \in cand : \A m \in cand : k <= m

\* stackalloc, the body of the slot-picking loop when the value takes its name.
PickNamed ==
    /\ pc = "pick"
    /\ NextPick <= Len(VS)
    /\ LET v == VS[NextPick]
       IN  /\ UsesName(F, RegAlloc, interfere, names, v)
           /\ RegAlloc' = SetHomes(F, RegAlloc, v, NameFor(F, names, v))
    /\ cursor' = NextPick + 1
    /\ UNCHANGED <<f, visitOrder, pc, live, changed, sweeps, interfere, names, phiArg, locations,
                   slots, autos, run, firstHome>>
    /\ UNCHANGED rwVars

\* stackalloc, the body of the slot-picking loop from the label noname on.
PickUnnamed ==
    /\ pc = "pick"
    /\ NextPick <= Len(VS)
    /\ LET v == VS[NextPick]
           t == F.Values[v].Type
           locs == locations[t]
           i == FirstUnused(UsedSlots(F, interfere, slots, v), Len(locs))
           fresh == i = Len(locs)
           locs2 == IF fresh THEN Append(locs, LocalSlot(Auto(autos), t, 0)) ELSE locs
       IN  /\ ~UsesName(F, RegAlloc, interfere, names, v)
           /\ locations' = [locations EXCEPT ![t] = locs2]
           /\ autos' = IF fresh THEN autos + 1 ELSE autos
           /\ RegAlloc' = SetHomes(F, RegAlloc, v, locs2[i + 1])
           /\ slots' = [id \in IDs |-> IF id \in Coalesced(F, v) THEN i ELSE slots[id]]
    /\ cursor' = NextPick + 1
    /\ UNCHANGED <<f, visitOrder, pc, live, changed, sweeps, interfere, names, phiArg,
                   run, firstHome>>
    /\ UNCHANGED rwVars

\* stackalloc returns.
Return ==
    /\ pc = "pick"
    /\ NextPick > Len(VS)
    /\ pc' = "done"
    /\ cursor' = NextPick
    /\ UNCHANGED <<f, visitOrder, live, changed, sweeps, interfere, names, phiArg, RegAlloc,
                   locations, slots, autos, run, firstHome>>
    /\ UNCHANGED rwVars

\* The same function is compiled again.
Rerun ==
    /\ pc = "done"
    /\ run = 1
    /\ run' = 2
    /\ firstHome' = RegAlloc
    /\ pc' = "liveSpills"
    /\ live' = EmptyLive(F)
    /\ changed' = FALSE
    /\ sweeps' = 0
    /\ interfere' = NoInterference
    /\ names' = NoNames
    /\ phiArg' = NoPhiArgs
    /\ RegAlloc' = InitialRegAlloc(F)
    /\ locations' = NoLocations
    /\ slots' = NoSlots
    /\ cursor' = 1
    /\ autos' = 0
    /\ UNCHANGED <<f, visitOrder>>
    /\ UNCHANGED rwVars

\* One run of stackalloc.
Next ==
    \/ LiveSweep
    \/ BuildInterference
    \/ BuildNameMap
    \/ MarkPhiArgs
    \/ AllocateArgs
    \/ PickNamed
    \/ PickUnnamed
    \/ Return

Spec == Init /\ [][Next]_vars

\* liveSpills alone, from its call to its return, never suspended: a sweep
\* that can be made is made.  Sweeping is a sweep as the counter shows it.
Sweeping == pc = "liveSpills" /\ sweeps < MaxSweeps /\ sweeps' = sweeps + 1

SpecLive == Init /\ [][LiveSweep]_vars /\ WF_sweeps(Sweeping)

\* liveSpills with the blocks visited in an order of any kind.  All orders
\* of the blocks of the loop, with every placement of the LoadRegs, and of
\* the join, with the LoadRegs at the places of JoinLoads.
BlockOrders(fn) ==
    LET n == Len(fn.Blocks)
    IN  {o \in [1..n -> 1..n] : \A i, j \in 1..n : o[i] = o[j] => i = j}

JoinLoads ==
    [pa : {<<JoinBlock("join"), "early">>},
     p1 : {<<SideBlock("join"), "late">>, <<JoinBlock("join"), "early">>},
     p2 : {<<4, "early">>},
     pp : {NoLoad, <<JoinBlock("join"), "early">>}]

OrderParams ==
    [sh : {"loop"}, pa : LoadPlacesA("loop"), p1 : LoadPlacesS1("loop"),
     p2 : LoadPlacesS2("loop"), pp : LoadPlacesP("loop")]
    \cup {[sh |-> "join", pa |-> l.pa, p1 |-> l.p1, p2 |-> l.p2, pp |-> l.pp] : l \in JoinLoads}

InitAnyOrder ==
    /\ \E p \in OrderParams : f = MakeFunc(p.sh, 1, 1, p.pa, p.p1, p.p2, p.pp, 1)
    /\ visitOrder \in BlockOrders(F)
    /\ Entered

SpecAnyOrder == InitAnyOrder /\ [][LiveSweep]_vars /\ WF_sweeps(Sweeping)

\* Two runs of stackalloc on the same function.
NextTwoRuns == Next \/ Rerun

SpecTwoRuns == Init /\ [][NextTwoRuns]_vars

----------------------------------------------------------------------------
(* The MIPS rewrite rules.  A matcher takes the function and the ID of the  *)
(* value (or block) it is applied to and leaves behind the function, the    *)
(* bool it returns (fired), and whether it stopped in a run-time panic.     *)
(* Ops and block kinds are named by their strings.  Rules whose pattern     *)
(* needs an op no function of the family holds (signed byte loads,        *)
(* extensions, floating point, atomics, calls) are not carried over.        *)

Miss(fn) == [f |-> fn, fired |-> FALSE, panic |-> FALSE]
Hit(fn) == [f |-> fn, fired |-> TRUE, panic |-> FALSE]
Panic(fn) == [f |-> fn, fired |-> FALSE, panic |-> TRUE]

OpOf(fn, w) == fn.Values[w].Op
AuxIntOf(fn, w) == fn.Values[w].AuxInt
Arg(fn, w, i) == fn.Values[w].Args[i]
IsConst(fn, w) == OpOf(fn, w) = "MOVWconst"

\* v.reset(op): the op changes; the arguments, AuxInt and Aux are dropped.
reset(fn, v, op) ==
    [fn EXCEPT !.Values[v] =
        [@ EXCEPT !.Op = op, !.Args = <<>>, !.AuxInt = Lit(0), !.Aux = NilNode]]

\* v.reset(op) followed by v.AuxInt = aux and v.AddArg of each of args.
resetTo(fn, v, op, aux, args) ==
    [reset(fn, v, op) EXCEPT !.Values[v].AuxInt = aux, !.Values[v].Args = args]

\* The replacement of v by the existing value x: v becomes a Copy of x.
copyOf(fn, v, x) == resetTo(fn, v, "Copy", Lit(0), <<x>>)

\* b.NewValue0 followed by the AuxInt and AddArg assignments: a new value at
\* the end of block b; its ID is the next free one, Len(fn.Values) + 1.
NewValue0(fn, b, op, aux, args) ==
    LET id == Len(fn.Values) + 1
    IN  [fn EXCEPT !.Values = Append(@, [Value(id, op, 1, args, b) EXCEPT !.AuxInt = aux]),
                   !.Blocks[b].Values = Append(@, id)]

\* b.Reset(kind), b.AddControl(w) and b.swapSuccessors().
Reset(fn, b, kind) == [fn EXCEPT !.Blocks[b].Kind = kind, !.Blocks[b].Controls = <<>>]
AddControl(fn, b, w) == [fn EXCEPT !.Blocks[b].Controls = Append(@, w)]
swapSuccessors(fn, b) ==
    [fn EXCEPT !.Blocks[b].Succs = <<@[2], @[1]>>]

\* The loop over the two orders of a commutative op's arguments: the first
\* of <<x, y>> and <<y, x>> that P accepts, <<>> when it accepts neither.
\* The pattern tried on the arguments as they stand only.
CommuteNone(x, y, P(_, _)) == IF P(x, y) THEN <<x, y>> ELSE <<>>
Commute(x, y, P(_, _)) ==
    IF P(x, y) THEN <<x, y>> ELSE IF P(y, x) THEN <<y, x>> ELSE <<>>

\* c + d on int64.
Add64(c, d) ==
    LET s == AddBytes(Bytes(Lo(c), 4) \o Bytes(Hi(c), 4),
                      Bytes(Lo(d), 4) \o Bytes(Hi(d), 4), 0)
    IN  <<FromBytes(SubSeq(s, 5, 8)), FromBytes(SubSeq(s, 1, 4))>>

\* uint32(c) >= 32.
AtLeast32(c) == Lo(c) < 0 \/ Lo(c) >= 32

\* x.Uses: the argument slots and the control slots that refer to x.
Uses(fn, x) ==
    Cardinality({u \in (1..Len(fn.Values)) \X (1..4) :
                    u[2] <= Len(fn.Values[u[1]].Args) /\ fn.Values[u[1]].Args[u[2]] = x})
    + Cardinality({u \in (1..Len(fn.Blocks)) \X (1..2) :
                    u[2] <= Len(fn.Blocks[u[1]].Controls) /\ fn.Blocks[u[1]].Controls[u[2]] = x})

\* is16Bit(n): n == int64(int16(n)).
is16Bit(n) == n = SignExt32(Lo(n)) /\ Lo(n) >= -(2 ^ 15) /\ Lo(n) < 2 ^ 15

\* canMergeSym and mergeSym: two symbols merge when one of them is nil.
canMergeSym(x, y) == x = NilNode \/ y = NilNode
mergeSym(x, y) == IF x = NilNode THEN y ELSE x

\* isSamePtr(p1, p2) on the ops of these functions: the same value.
isSamePtr(p1, p2) == p1 = p2

\* v.reset(op) followed by the AuxInt, Aux and AddArg assignments.
resetSym(fn, v, op, aux, sym, args) ==
    [resetTo(fn, v, op, aux, args) EXCEPT !.Values[v].Aux = sym]

rewriteValueMIPS_OpAdd32(fn, v) ==
    Hit(resetTo(fn, v, "ADD", Lit(0), <<Arg(fn, v, 1), Arg(fn, v, 2)>>))

\* Const32 lowered to the constant 0 whatever its value.
rewriteValueMIPS_OpConst32Zero(fn, v) == Hit(resetTo(fn, v, "MOVWconst", Lit(0), <<>>))
rewriteValueMIPS_OpConst32(fn, v) ==
    Hit(resetTo(fn, v, "MOVWconst", AuxIntOf(fn, v), <<>>))

\* The first rule of ADD rewriting v and returning false all the same.
rewriteValueMIPS_OpMIPSADDUnreported(fn, v) ==
    LET v_0 == Arg(fn, v, 1)
        v_1 == Arg(fn, v, 2)
        ConstSecond(x, y) == IsConst(fn, y)
        m1 == Commute(v_0, v_1, ConstSecond)
    IN  IF m1 # <<>>
        THEN Miss(resetTo(fn, v, "ADDconst", AuxIntOf(fn, m1[2]), <<m1[1]>>))
        ELSE Miss(fn)
\* The rules of ADD with their patterns tried on the arguments as written.
rewriteValueMIPS_OpMIPSADDAsWritten(fn, v) ==
    LET v_0 == Arg(fn, v, 1)
        v_1 == Arg(fn, v, 2)
    IN  IF IsConst(fn, v_1)
        THEN Hit(resetTo(fn, v, "ADDconst", AuxIntOf(fn, v_1), <<v_0>>))
        ELSE IF OpOf(fn, v_1) = "NEG"
        THEN Hit(resetTo(fn, v, "SUB", Lit(0), <<v_0, Arg(fn, v_1, 1)>>))
        ELSE Miss(fn)
rewriteValueMIPS_OpMIPSADD(fn, v) ==
    LET v_0 == Arg(fn, v, 1)
        v_1 == Arg(fn, v, 2)
        ConstSecond(x, y) == IsConst(fn, y)
        NegSecond(x, y) == OpOf(fn, y) = "NEG"
        m1 == Commute(v_0, v_1, ConstSecond)
        m2 == Commute(v_0, v_1, NegSecond)
    IN  IF m1 # <<>>
        THEN Hit(resetTo(fn, v, "ADDconst", AuxIntOf(fn, m1[2]), <<m1[1]>>))
        ELSE IF m2 # <<>>
        THEN Hit(resetTo(fn, v, "SUB", Lit(0), <<m2[1], Arg(fn, m2[2], 1)>>))
        ELSE Miss(fn)

\* The rules of ADDconst, with the constant operand taken out of its block
\* once the sum is folded into v.
rewriteValueMIPS_OpMIPSADDconstDroppingOperand(fn, v) ==
    LET v_0 == Arg(fn, v, 1)
        c == AuxIntOf(fn, v)
        d == AuxIntOf(fn, v_0)
    IN  IF OpOf(fn, v_0) = "MOVWaddr"
        THEN Hit([resetTo(fn, v, "MOVWaddr", Add64(c, d), <<Arg(fn, v_0, 1)>>)
                    EXCEPT !.Values[v].Aux = fn.Values[v_0].Aux])
        ELSE IF c = Lit(0)
        THEN Hit(copyOf(fn, v, v_0))
        ELSE IF IsConst(fn, v_0)
        THEN Hit([resetTo(fn, v, "MOVWconst", SignExt32(Add32(Lo(c), Lo(d))), <<>>)
                    EXCEPT !.Blocks[fn.Values[v_0].Block].Values = Without(@, v_0)])
        ELSE IF OpOf(fn, v_0) = "ADDconst"
        THEN Hit(resetTo(fn, v, "ADDconst", SignExt32(Add32(Lo(c), Lo(d))),
                         <<Arg(fn, v_0, 1)>>))
        ELSE IF OpOf(fn, v_0) = "SUBconst"
        THEN Hit(resetTo(fn, v, "ADDconst", SignExt32(Sub32(Lo(c), Lo(d))),
                         <<Arg(fn, v_0, 1)>>))
        ELSE Miss(fn)
rewriteValueMIPS_OpMIPSADDconst(fn, v) ==
    LET v_0 == Arg(fn, v, 1)
        c == AuxIntOf(fn, v)
        d == AuxIntOf(fn, v_0)
    IN  IF OpOf(fn, v_0) = "MOVWaddr"
        THEN Hit([resetTo(fn, v, "MOVWaddr", Add64(c, d), <<Arg(fn, v_0, 1)>>)
                    EXCEPT !.Values[v].Aux = fn.Values[v_0].Aux])
        ELSE IF c = Lit(0)
        THEN Hit(copyOf(fn, v, v_0))
        ELSE IF IsConst(fn, v_0)
        THEN Hit(resetTo(fn, v, "MOVWconst", SignExt32(Add32(Lo(c), Lo(d))), <<>>))
        ELSE IF OpOf(fn, v_0) = "ADDconst"
        THEN Hit(resetTo(fn, v, "ADDconst", SignExt32(Add32(Lo(c), Lo(d))),
                         <<Arg(fn, v_0, 1)>>))
        ELSE IF OpOf(fn, v_0) = "SUBconst"
        THEN Hit(resetTo(fn, v, "ADDconst", SignExt32(Sub32(Lo(c), Lo(d))),
                         <<Arg(fn, v_0, 1)>>))
        ELSE Miss(fn)

rewriteValueMIPS_OpMIPSAND(fn, v) ==
    LET v_0 == Arg(fn, v, 1)
        v_1 == Arg(fn, v, 2)
        b == fn.Values[v].Block
        ConstSecond(x, y) == IsConst(fn, y)
        IsSGTUconst1(w) == OpOf(fn, w) = "SGTUconst" /\ AuxIntOf(fn, w) = Lit(1)
        BothSGTUconst1(x, y) == IsSGTUconst1(x) /\ IsSGTUconst1(y)
        m1 == Commute(v_0, v_1, ConstSecond)
        m3 == Commute(v_0, v_1, BothSGTUconst1)
    IN  IF m1 # <<>>
        THEN Hit(resetTo(fn, v, "ANDconst", AuxIntOf(fn, m1[2]), <<m1[1]>>))
        ELSE IF v_0 = v_1
        THEN Hit(copyOf(fn, v, v_0))
        ELSE IF m3 # <<>>
        THEN LET n == NewValue0(fn, b, "OR", Lit(0),
                                <<Arg(fn, m3[1], 1), Arg(fn, m3[2], 1)>>)
             IN  Hit(resetTo(n, v, "SGTUconst", Lit(1), <<Len(n.Values)>>))
        ELSE Miss(fn)

rewriteValueMIPS_OpMIPSANDconst(fn, v) ==
    LET v_0 == Arg(fn, v, 1)
        c == AuxIntOf(fn, v)
        d == AuxIntOf(fn, v_0)
    IN  IF c = Lit(0)
        THEN Hit(resetTo(fn, v, "MOVWconst", Lit(0), <<>>))
        ELSE IF c = Lit(-1)
        THEN Hit(copyOf(fn, v, v_0))
        ELSE IF IsConst(fn, v_0)
        THEN Hit(resetTo(fn, v, "MOVWconst", And64(c, d), <<>>))
        ELSE IF OpOf(fn, v_0) = "ANDconst"
        THEN Hit(resetTo(fn, v, "ANDconst", And64(c, d), <<Arg(fn, v_0, 1)>>))
        ELSE Miss(fn)

rewriteValueMIPS_OpMIPSCMOVZ(fn, v) ==
    LET v_0 == Arg(fn, v, 1)
        v_1 == Arg(fn, v, 2)
        v_2 == Arg(fn, v, 3)
    IN  IF IsConst(fn, v_2) /\ AuxIntOf(fn, v_2) = Lit(0)
        THEN Hit(copyOf(fn, v, v_1))
        ELSE IF IsConst(fn, v_2) /\ AuxIntOf(fn, v_2) # Lit(0)
        THEN Hit(copyOf(fn, v, v_0))
        ELSE IF IsConst(fn, v_1) /\ AuxIntOf(fn, v_1) = Lit(0)
        THEN Hit(resetTo(fn, v, "CMOVZzero", Lit(0), <<v_0, v_2>>))
        ELSE Miss(fn)

rewriteValueMIPS_OpMIPSCMOVZzero(fn, v) ==
    LET v_0 == Arg(fn, v, 1)
        v_1 == Arg(fn, v, 2)
    IN  IF IsConst(fn, v_1) /\ AuxIntOf(fn, v_1) = Lit(0)
        THEN Hit(resetTo(fn, v, "MOVWconst", Lit(0), <<>>))
        ELSE IF IsConst(fn, v_1) /\ AuxIntOf(fn, v_1) # Lit(0)
        THEN Hit(copyOf(fn, v, v_0))
        ELSE Miss(fn)

\* The ADDconst rule of MOVWload tried only when the load is x's one use.
rewriteValueMIPS_OpMIPSMOVWloadOneUse(fn, v) ==
    LET v_0 == Arg(fn, v, 1)
        v_1 == Arg(fn, v, 2)
        off1 == AuxIntOf(fn, v)
        sym == fn.Values[v].Aux
    IN  IF OpOf(fn, v_0) = "ADDconst" /\ Uses(fn, v_0) = 1
        THEN Hit(resetSym(fn, v, "MOVWload", Add64(off1, AuxIntOf(fn, v_0)), sym,
                          <<Arg(fn, v_0, 1), v_1>>))
        ELSE Miss(fn)
rewriteValueMIPS_OpMIPSMOVWload(fn, v) ==
    LET v_0 == Arg(fn, v, 1)
        v_1 == Arg(fn, v, 2)
        off1 == AuxIntOf(fn, v)
        sym == fn.Values[v].Aux
    IN  IF OpOf(fn, v_0) = "ADDconst"
           /\ (is16Bit(Add64(off1, AuxIntOf(fn, v_0))) \/ Uses(fn, v_0) = 1)
        THEN Hit(resetSym(fn, v, "MOVWload", Add64(off1, AuxIntOf(fn, v_0)), sym,
                          <<Arg(fn, v_0, 1), v_1>>))
        ELSE IF OpOf(fn, v_0) = "MOVWaddr" /\ canMergeSym(sym, fn.Values[v_0].Aux)
        THEN Hit(resetSym(fn, v, "MOVWload", Add64(off1, AuxIntOf(fn, v_0)),
                          mergeSym(sym, fn.Values[v_0].Aux), <<Arg(fn, v_0, 1), v_1>>))
        ELSE IF OpOf(fn, v_1) = "MOVWstore" /\ sym = fn.Values[v_1].Aux
                /\ off1 = AuxIntOf(fn, v_1) /\ isSamePtr(v_0, Arg(fn, v_1, 1))
        THEN Hit(copyOf(fn, v, Arg(fn, v_1, 2)))
        ELSE Miss(fn)

rewriteValueMIPS_OpMIPSMOVWstoreFitsOnly(fn, v) ==
    LET v_0 == Arg(fn, v, 1)
        v_1 == Arg(fn, v, 2)
        v_2 == Arg(fn, v, 3)
        off1 == AuxIntOf(fn, v)
        sym == fn.Values[v].Aux
    IN  IF OpOf(fn, v_0) = "ADDconst" /\ is16Bit(Add64(off1, AuxIntOf(fn, v_0)))
        THEN Hit(resetSym(fn, v, "MOVWstore", Add64(off1, AuxIntOf(fn, v_0)), sym,
                          <<Arg(fn, v_0, 1), v_1, v_2>>))
        ELSE Miss(fn)
rewriteValueMIPS_OpMIPSMOVWstore(fn, v) ==
    LET v_0 == Arg(fn, v, 1)
        v_1 == Arg(fn, v, 2)
        v_2 == Arg(fn, v, 3)
        off1 == AuxIntOf(fn, v)
        sym == fn.Values[v].Aux
    IN  IF OpOf(fn, v_0) = "ADDconst"
           /\ (is16Bit(Add64(off1, AuxIntOf(fn, v_0))) \/ Uses(fn, v_0) = 1)
        THEN Hit(resetSym(fn, v, "MOVWstore", Add64(off1, AuxIntOf(fn, v_0)), sym,
                          <<Arg(fn, v_0, 1), v_1, v_2>>))
        ELSE IF OpOf(fn, v_0) = "MOVWaddr" /\ canMergeSym(sym, fn.Values[v_0].Aux)
        THEN Hit(resetSym(fn, v, "MOVWstore", Add64(off1, AuxIntOf(fn, v_0)),
                          mergeSym(sym, fn.Values[v_0].Aux), <<Arg(fn, v_0, 1), v_1, v_2>>))
        ELSE IF IsConst(fn, v_1) /\ AuxIntOf(fn, v_1) = Lit(0)
        THEN Hit(resetSym(fn, v, "MOVWstorezero", off1, sym, <<v_0, v_2>>))
        ELSE IF OpOf(fn, v_1) = "MOVWreg"
        THEN Hit(resetSym(fn, v, "MOVWstore", off1, sym, <<v_0, Arg(fn, v_1, 1), v_2>>))
        ELSE Miss(fn)

rewriteValueMIPS_OpMIPSMOVWstorezero(fn, v) ==
    LET v_0 == Arg(fn, v, 1)
        v_1 == Arg(fn, v, 2)
        off1 == AuxIntOf(fn, v)
        sym == fn.Values[v].Aux
    IN  IF OpOf(fn, v_0) = "ADDconst"
           /\ (is16Bit(Add64(off1, AuxIntOf(fn, v_0))) \/ Uses(fn, v_0) = 1)
        THEN Hit(resetSym(fn, v, "MOVWstorezero", Add64(off1, AuxIntOf(fn, v_0)), sym,
                          <<Arg(fn, v_0, 1), v_1>>))
        ELSE IF OpOf(fn, v_0) = "MOVWaddr" /\ canMergeSym(sym, fn.Values[v_0].Aux)
        THEN Hit(resetSym(fn, v, "MOVWstorezero", Add64(off1, AuxIntOf(fn, v_0)),
                          mergeSym(sym, fn.Values[v_0].Aux), <<Arg(fn, v_0, 1), v_1>>))
        ELSE Miss(fn)

\* The rules the byte, halfword and word stores share: the displacement
\* rules, the store of zero, and the store of an extended value (regOps).
StoreRules(fn, v, op, zeroOp, regOps) ==
    LET v_0 == Arg(fn, v, 1)
        v_1 == Arg(fn, v, 2)
        v_2 == Arg(fn, v, 3)
        off1 == AuxIntOf(fn, v)
        sym == fn.Values[v].Aux
    IN  IF OpOf(fn, v_0) = "ADDconst"
           /\ (is16Bit(Add64(off1, AuxIntOf(fn, v_0))) \/ Uses(fn, v_0) = 1)
        THEN Hit(resetSym(fn, v, op, Add64(off1, AuxIntOf(fn, v_0)), sym,
                          <<Arg(fn, v_0, 1), v_1, v_2>>))
        ELSE IF OpOf(fn, v_0) = "MOVWaddr" /\ canMergeSym(sym, fn.Values[v_0].Aux)
        THEN Hit(resetSym(fn, v, op, Add64(off1, AuxIntOf(fn, v_0)),
                          mergeSym(sym, fn.Values[v_0].Aux), <<Arg(fn, v_0, 1), v_1, v_2>>))
        ELSE IF IsConst(fn, v_1) /\ AuxIntOf(fn, v_1) = Lit(0)
        THEN Hit(resetSym(fn, v, zeroOp, off1, sym, <<v_0, v_2>>))
        ELSE IF OpOf(fn, v_1) \in regOps
        THEN Hit(resetSym(fn, v, op, off1, sym, <<v_0, Arg(fn, v_1, 1), v_2>>))
        ELSE Miss(fn)

\* The rules of a store of zero: the displacement rules.
StoreZeroRules(fn, v, op) ==
    LET v_0 == Arg(fn, v, 1)
        v_1 == Arg(fn, v, 2)
        off1 == AuxIntOf(fn, v)
        sym == fn.Values[v].Aux
    IN  IF OpOf(fn, v_0) = "ADDconst"
           /\ (is16Bit(Add64(off1, AuxIntOf(fn, v_0))) \/ Uses(fn, v_0) = 1)
        THEN Hit(resetSym(fn, v, op, Add64(off1, AuxIntOf(fn, v_0)), sym,
                          <<Arg(fn, v_0, 1), v_1>>))
        ELSE IF OpOf(fn, v_0) = "MOVWaddr" /\ canMergeSym(sym, fn.Values[v_0].Aux)
        THEN Hit(resetSym(fn, v, op, Add64(off1, AuxIntOf(fn, v_0)),
                          mergeSym(sym, fn.Values[v_0].Aux), <<Arg(fn, v_0, 1), v_1>>))
        ELSE Miss(fn)

\* The rules of a byte or halfword load: the displacement rules, and the
\* load that follows a store to the same address, which becomes the
\* extension regOp of the stored value.
LoadRules(fn, v, op, storeOp, regOp) ==
    LET v_0 == Arg(fn, v, 1)
        v_1 == Arg(fn, v, 2)
        off1 == AuxIntOf(fn, v)
        sym == fn.Values[v].Aux
    IN  IF OpOf(fn, v_0) = "ADDconst"
           /\ (is16Bit(Add64(off1, AuxIntOf(fn, v_0))) \/ Uses(fn, v_0) = 1)
        THEN Hit(resetSym(fn, v, op, Add64(off1, AuxIntOf(fn, v_0)), sym,
                          <<Arg(fn, v_0, 1), v_1>>))
        ELSE IF OpOf(fn, v_0) = "MOVWaddr" /\ canMergeSym(sym, fn.Values[v_0].Aux)
        THEN Hit(resetSym(fn, v, op, Add64(off1, AuxIntOf(fn, v_0)),
                          mergeSym(sym, fn.Values[v_0].Aux), <<Arg(fn, v_0, 1), v_1>>))
        ELSE IF OpOf(fn, v_1) = storeOp /\ sym = fn.Values[v_1].Aux
                /\ off1 = AuxIntOf(fn, v_1) /\ isSamePtr(v_0, Arg(fn, v_1, 1))
        THEN Hit(resetTo(fn, v, regOp, Lit(0), <<Arg(fn, v_1, 2)>>))
        ELSE Miss(fn)

rewriteValueMIPS_OpMIPSMOVBUload(fn, v) == LoadRules(fn, v, "MOVBUload", "MOVBstore", "MOVBUreg")
rewriteValueMIPS_OpMIPSMOVHUload(fn, v) == LoadRules(fn, v, "MOVHUload", "MOVHstore", "MOVHUreg")
rewriteValueMIPS_OpMIPSMOVHload(fn, v) == LoadRules(fn, v, "MOVHload", "MOVHstore", "MOVHreg")
rewriteValueMIPS_OpMIPSMOVBstore(fn, v) ==
    StoreRules(fn, v, "MOVBstore", "MOVBstorezero",
               {"MOVBreg", "MOVBUreg", "MOVHreg", "MOVHUreg", "MOVWreg"})
rewriteValueMIPS_OpMIPSMOVHstore(fn, v) ==
    StoreRules(fn, v, "MOVHstore", "MOVHstorezero", {"MOVHreg", "MOVHUreg", "MOVWreg"})
rewriteValueMIPS_OpMIPSMOVBstorezero(fn, v) == StoreZeroRules(fn, v, "MOVBstorezero")
rewriteValueMIPS_OpMIPSMOVHstorezero(fn, v) == StoreZeroRules(fn, v, "MOVHstorezero")

rewriteValueMIPS_OpMIPSMUL(fn, v) ==
    LET v_0 == Arg(fn, v, 1)
        v_1 == Arg(fn, v, 2)
        Is(k, x) == IsConst(fn, x) /\ AuxIntOf(fn, x) = Lit(k)
        ZeroFirst(x, y) == Is(0, x)
        OneFirst(x, y) == Is(1, x)
        MinusOneFirst(x, y) == Is(-1, x)
        PowerFirst(x, y) == IsConst(fn, x) /\ isPowerOfTwo(AuxIntOf(fn, x))
        BothConst(x, y) == IsConst(fn, x) /\ IsConst(fn, y)
        m1 == Commute(v_0, v_1, ZeroFirst)
        m2 == Commute(v_0, v_1, OneFirst)
        m3 == Commute(v_0, v_1, MinusOneFirst)
        m4 == Commute(v_0, v_1, PowerFirst)
        m5 == Commute(v_0, v_1, BothConst)
    IN  IF m1 # <<>>
        THEN Hit(resetTo(fn, v, "MOVWconst", Lit(0), <<>>))
        ELSE IF m2 # <<>>
        THEN Hit(copyOf(fn, v, m2[2]))
        ELSE IF m3 # <<>>
        THEN Hit(resetTo(fn, v, "NEG", Lit(0), <<m3[2]>>))
        ELSE IF m4 # <<>>
        THEN Hit(resetTo(fn, v, "SLLconst", Lit(log2(AuxIntOf(fn, m4[1]))), <<m4[2]>>))
        ELSE IF m5 # <<>>
        THEN Hit(resetTo(fn, v, "MOVWconst",
                         SignExt32(Mul32(Lo(AuxIntOf(fn, m5[1])), Lo(AuxIntOf(fn, m5[2])))),
                         <<>>))
        ELSE Miss(fn)

rewriteValueMIPS_OpMIPSNEG(fn, v) ==
    LET v_0 == Arg(fn, v, 1)
    IN  IF IsConst(fn, v_0)
        THEN Hit(resetTo(fn, v, "MOVWconst", SignExt32(Neg32(Lo(AuxIntOf(fn, v_0)))), <<>>))
        ELSE Miss(fn)

rewriteValueMIPS_OpMIPSNOR(fn, v) ==
    LET v_0 == Arg(fn, v, 1)
        v_1 == Arg(fn, v, 2)
        ConstSecond(x, y) == IsConst(fn, y)
        m1 == Commute(v_0, v_1, ConstSecond)
    IN  IF m1 # <<>>
        THEN Hit(resetTo(fn, v, "NORconst", AuxIntOf(fn, m1[2]), <<m1[1]>>))
        ELSE Miss(fn)

rewriteValueMIPS_OpMIPSNORconst(fn, v) ==
    LET v_0 == Arg(fn, v, 1)
    IN  IF IsConst(fn, v_0)
        THEN Hit(resetTo(fn, v, "MOVWconst",
                         Not64(Or64(AuxIntOf(fn, v), AuxIntOf(fn, v_0))), <<>>))
        ELSE Miss(fn)

rewriteValueMIPS_OpMIPSOR(fn, v) ==
    LET v_0 == Arg(fn, v, 1)
        v_1 == Arg(fn, v, 2)
        b == fn.Values[v].Block
        ConstSecond(x, y) == IsConst(fn, y)
        BothSGTUzero(x, y) == OpOf(fn, x) = "SGTUzero" /\ OpOf(fn, y) = "SGTUzero"
        m1 == Commute(v_0, v_1, ConstSecond)
        m3 == Commute(v_0, v_1, BothSGTUzero)
    IN  IF m1 # <<>>
        THEN Hit(resetTo(fn, v, "ORconst", AuxIntOf(fn, m1[2]), <<m1[1]>>))
        ELSE IF v_0 = v_1
        THEN Hit(copyOf(fn, v, v_0))
        ELSE IF m3 # <<>>
        THEN LET n == NewValue0(fn, b, "OR", Lit(0),
                                <<Arg(fn, m3[1], 1), Arg(fn, m3[2], 1)>>)
             IN  Hit(resetTo(n, v, "SGTUzero", Lit(0), <<Len(n.Values)>>))
        ELSE Miss(fn)

rewriteValueMIPS_OpMIPSORconst(fn, v) ==
    LET v_0 == Arg(fn, v, 1)
        c == AuxIntOf(fn, v)
        d == AuxIntOf(fn, v_0)
    IN  IF c = Lit(0)
        THEN Hit(copyOf(fn, v, v_0))
        ELSE IF c = Lit(-1)
        THEN Hit(resetTo(fn, v, "MOVWconst", Lit(-1), <<>>))
        ELSE IF IsConst(fn, v_0)
        THEN Hit(resetTo(fn, v, "MOVWconst", Or64(c, d), <<>>))
        ELSE IF OpOf(fn, v_0) = "ORconst"
        THEN Hit(resetTo(fn, v, "ORconst", Or64(c, d), <<Arg(fn, v_0, 1)>>))
        ELSE Miss(fn)

rewriteValueMIPS_OpMIPSSGT(fn, v) ==
    LET v_0 == Arg(fn, v, 1)
        v_1 == Arg(fn, v, 2)
    IN  IF IsConst(fn, v_0)
        THEN Hit(resetTo(fn, v, "SGTconst", AuxIntOf(fn, v_0), <<v_1>>))
        ELSE IF IsConst(fn, v_1) /\ AuxIntOf(fn, v_1) = Lit(0)
        THEN Hit(resetTo(fn, v, "SGTzero", Lit(0), <<v_0>>))
        ELSE Miss(fn)

rewriteValueMIPS_OpMIPSSGTU(fn, v) ==
    LET v_0 == Arg(fn, v, 1)
        v_1 == Arg(fn, v, 2)
    IN  IF IsConst(fn, v_0)
        THEN Hit(resetTo(fn, v, "SGTUconst", AuxIntOf(fn, v_0), <<v_1>>))
        ELSE IF IsConst(fn, v_1) /\ AuxIntOf(fn, v_1) = Lit(0)
        THEN Hit(resetTo(fn, v, "SGTUzero", Lit(0), <<v_0>>))
        ELSE Miss(fn)

rewriteValueMIPS_OpMIPSSGTUconst(fn, v) ==
    LET v_0 == Arg(fn, v, 1)
        c == Lo(AuxIntOf(fn, v))
        d == Lo(AuxIntOf(fn, v_0))
        One == Hit(resetTo(fn, v, "MOVWconst", Lit(1), <<>>))
        Zero == Hit(resetTo(fn, v, "MOVWconst", Lit(0), <<>>))
    IN  IF IsConst(fn, v_0) /\ LessU32(d, c) THEN One
        ELSE IF IsConst(fn, v_0) /\ ~LessU32(d, c) THEN Zero
        ELSE IF OpOf(fn, v_0) = "MOVBUreg" /\ LessU32(255, c) THEN One
        ELSE IF OpOf(fn, v_0) = "MOVHUreg" /\ LessU32(65535, c) THEN One
        ELSE IF OpOf(fn, v_0) = "ANDconst" /\ LessU32(d, c) THEN One
        ELSE IF OpOf(fn, v_0) = "SRLconst" /\ ~AtLeast32(AuxIntOf(fn, v_0))
                /\ LessU32(Shr32(-1, d), c) THEN One
        ELSE Miss(fn)

rewriteValueMIPS_OpMIPSSGTUzero(fn, v) ==
    LET v_0 == Arg(fn, v, 1)
    IN  IF IsConst(fn, v_0) /\ Lo(AuxIntOf(fn, v_0)) # 0
        THEN Hit(resetTo(fn, v, "MOVWconst", Lit(1), <<>>))
        ELSE IF IsConst(fn, v_0) /\ Lo(AuxIntOf(fn, v_0)) = 0
        THEN Hit(resetTo(fn, v, "MOVWconst", Lit(0), <<>>))
        ELSE Miss(fn)

rewriteValueMIPS_OpMIPSSGTconst(fn, v) ==
    LET v_0 == Arg(fn, v, 1)
        c == Lo(AuxIntOf(fn, v))
        d == Lo(AuxIntOf(fn, v_0))
        op == OpOf(fn, v_0)
        One == Hit(resetTo(fn, v, "MOVWconst", Lit(1), <<>>))
        Zero == Hit(resetTo(fn, v, "MOVWconst", Lit(0), <<>>))
    IN  IF op = "MOVWconst" /\ c > d THEN One
        ELSE IF op = "MOVWconst" /\ c <= d THEN Zero
        ELSE IF op = "MOVBreg" /\ 127 < c THEN One
        ELSE IF op = "MOVBreg" /\ c <= -128 THEN Zero
        ELSE IF op = "MOVBUreg" /\ 255 < c THEN One
        ELSE IF op = "MOVBUreg" /\ c < 0 THEN Zero
        ELSE IF op = "MOVHreg" /\ 32767 < c THEN One
        ELSE IF op = "MOVHreg" /\ c <= -32768 THEN Zero
        ELSE IF op = "MOVHUreg" /\ 65535 < c THEN One
        ELSE IF op = "MOVHUreg" /\ c < 0 THEN Zero
        ELSE IF op = "ANDconst" /\ 0 <= d /\ d < c THEN One
        ELSE IF op = "SRLconst" /\ 0 <= c /\ ~AtLeast32(AuxIntOf(fn, v_0))
                /\ LessU32(Shr32(-1, d), c) THEN One
        ELSE Miss(fn)

rewriteValueMIPS_OpMIPSSGTzero(fn, v) ==
    LET v_0 == Arg(fn, v, 1)
    IN  IF IsConst(fn, v_0) /\ Lo(AuxIntOf(fn, v_0)) > 0
        THEN Hit(resetTo(fn, v, "MOVWconst", Lit(1), <<>>))
        ELSE IF IsConst(fn, v_0) /\ Lo(AuxIntOf(fn, v_0)) <= 0
        THEN Hit(resetTo(fn, v, "MOVWconst", Lit(0), <<>>))
        ELSE Miss(fn)

rewriteValueMIPS_OpMIPSSLL(fn, v) ==
    LET v_0 == Arg(fn, v, 1)
        v_1 == Arg(fn, v, 2)
    IN  IF IsConst(fn, v_1) /\ AtLeast32(AuxIntOf(fn, v_1))
        THEN Hit(resetTo(fn, v, "MOVWconst", Lit(0), <<>>))
        ELSE IF IsConst(fn, v_1)
        THEN Hit(resetTo(fn, v, "SLLconst", AuxIntOf(fn, v_1), <<v_0>>))
        ELSE Miss(fn)

rewriteValueMIPS_OpMIPSSLLconst(fn, v) ==
    LET v_0 == Arg(fn, v, 1)
    IN  IF IsConst(fn, v_0)
        THEN Hit(resetTo(fn, v, "MOVWconst",
                         SignExt32(Shl32(Lo(AuxIntOf(fn, v_0)), Lo(AuxIntOf(fn, v)))), <<>>))
        ELSE Miss(fn)

rewriteValueMIPS_OpMIPSSRA(fn, v) ==
    LET v_0 == Arg(fn, v, 1)
        v_1 == Arg(fn, v, 2)
    IN  IF IsConst(fn, v_1) /\ AtLeast32(AuxIntOf(fn, v_1))
        THEN Hit(resetTo(fn, v, "SRAconst", Lit(31), <<v_0>>))
        ELSE IF IsConst(fn, v_1)
        THEN Hit(resetTo(fn, v, "SRAconst", AuxIntOf(fn, v_1), <<v_0>>))
        ELSE Miss(fn)

rewriteValueMIPS_OpMIPSSRAconst(fn, v) ==
    LET v_0 == Arg(fn, v, 1)
    IN  IF IsConst(fn, v_0)
        THEN Hit(resetTo(fn, v, "MOVWconst",
                         SignExt32(Sar32(Lo(AuxIntOf(fn, v_0)), Lo(AuxIntOf(fn, v)))), <<>>))
        ELSE Miss(fn)

rewriteValueMIPS_OpMIPSSRL(fn, v) ==
    LET v_0 == Arg(fn, v, 1)
        v_1 == Arg(fn, v, 2)
    IN  IF IsConst(fn, v_1) /\ AtLeast32(AuxIntOf(fn, v_1))
        THEN Hit(resetTo(fn, v, "MOVWconst", Lit(0), <<>>))
        ELSE IF IsConst(fn, v_1)
        THEN Hit(resetTo(fn, v, "SRLconst", AuxIntOf(fn, v_1), <<v_0>>))
        ELSE Miss(fn)

rewriteValueMIPS_OpMIPSSRLconst(fn, v) ==
    LET v_0 == Arg(fn, v, 1)
    IN  IF IsConst(fn, v_0)
        THEN Hit(resetTo(fn, v, "MOVWconst",
                         ZeroExt32(Shr32(Lo(AuxIntOf(fn, v_0)), Lo(AuxIntOf(fn, v)))), <<>>))
        ELSE Miss(fn)

rewriteValueMIPS_OpMIPSSUBasADDconst(fn, v) ==
    LET v_0 == Arg(fn, v, 1)
        v_1 == Arg(fn, v, 2)
    IN  IF IsConst(fn, v_1)
        THEN Hit(resetTo(fn, v, "ADDconst", SignExt32(Neg32(Lo(AuxIntOf(fn, v_1)))), <<v_0>>))
        ELSE Miss(fn)
rewriteValueMIPS_OpMIPSSUB(fn, v) ==
    LET v_0 == Arg(fn, v, 1)
        v_1 == Arg(fn, v, 2)
    IN  IF IsConst(fn, v_1)
        THEN Hit(resetTo(fn, v, "SUBconst", AuxIntOf(fn, v_1), <<v_0>>))
        ELSE IF v_0 = v_1
        THEN Hit(resetTo(fn, v, "MOVWconst", Lit(0), <<>>))
        ELSE IF IsConst(fn, v_0) /\ AuxIntOf(fn, v_0) = Lit(0)
        THEN Hit(resetTo(fn, v, "NEG", Lit(0), <<v_1>>))
        ELSE Miss(fn)

rewriteValueMIPS_OpMIPSSUBconst(fn, v) ==
    LET v_0 == Arg(fn, v, 1)
        c == AuxIntOf(fn, v)
        d == AuxIntOf(fn, v_0)
    IN  IF c = Lit(0)
        THEN Hit(copyOf(fn, v, v_0))
        ELSE IF IsConst(fn, v_0)
        THEN Hit(resetTo(fn, v, "MOVWconst", SignExt32(Sub32(Lo(d), Lo(c))), <<>>))
        ELSE IF OpOf(fn, v_0) = "SUBconst"
        THEN Hit(resetTo(fn, v, "ADDconst", SignExt32(Sub32(Neg32(Lo(c)), Lo(d))),
                         <<Arg(fn, v_0, 1)>>))
        ELSE IF OpOf(fn, v_0) = "ADDconst"
        THEN Hit(resetTo(fn, v, "ADDconst", SignExt32(Add32(Neg32(Lo(c)), Lo(d))),
                         <<Arg(fn, v_0, 1)>>))
        ELSE Miss(fn)

rewriteValueMIPS_OpMIPSXOR(fn, v) ==
    LET v_0 == Arg(fn, v, 1)
        v_1 == Arg(fn, v, 2)
        ConstSecond(x, y) == IsConst(fn, y)
        m1 == Commute(v_0, v_1, ConstSecond)
    IN  IF m1 # <<>>
        THEN Hit(resetTo(fn, v, "XORconst", AuxIntOf(fn, m1[2]), <<m1[1]>>))
        ELSE IF v_0 = v_1
        THEN Hit(resetTo(fn, v, "MOVWconst", Lit(0), <<>>))
        ELSE Miss(fn)

rewriteValueMIPS_OpMIPSXORconst(fn, v) ==
    LET v_0 == Arg(fn, v, 1)
        c == AuxIntOf(fn, v)
        d == AuxIntOf(fn, v_0)
    IN  IF c = Lit(0)
        THEN Hit(copyOf(fn, v, v_0))
        ELSE IF c = Lit(-1)
        THEN Hit(resetTo(fn, v, "NORconst", Lit(0), <<v_0>>))
        ELSE IF IsConst(fn, v_0)
        THEN Hit(resetTo(fn, v, "MOVWconst", Xor64(c, d), <<>>))
        ELSE IF OpOf(fn, v_0) = "XORconst"
        THEN Hit(resetTo(fn, v, "XORconst", Xor64(c, d), <<Arg(fn, v_0, 1)>>))
        ELSE Miss(fn)

rewriteValueMIPS_OpSelect0(fn, v) ==
    LET v_0 == Arg(fn, v, 1)
        b == fn.Values[v].Block
        op == OpOf(fn, v_0)
        v_0_0 == Arg(fn, v_0, 1)
        v_0_1 == Arg(fn, v_0, 2)
        Is(k, x) == IsConst(fn, x) /\ AuxIntOf(fn, x) = Lit(k)
        ZeroFirst(x, y) == Is(0, x)
        OneFirst(x, y) == Is(1, x)
        MinusOneFirst(x, y) == Is(-1, x)
        PowerFirst(x, y) == IsConst(fn, x) /\ isPowerOfTwo(AuxIntOf(fn, x))
        BothConst(x, y) == IsConst(fn, x) /\ IsConst(fn, y)
        m1 == Commute(v_0_0, v_0_1, ZeroFirst)
        m2 == Commute(v_0_0, v_0_1, OneFirst)
        m3 == Commute(v_0_0, v_0_1, MinusOneFirst)
        m4 == Commute(v_0_0, v_0_1, PowerFirst)
        m5 == Commute(v_0_0, v_0_1, BothConst)
        c == AuxIntOf(fn, v_0_0)
        d == AuxIntOf(fn, v_0_1)
    IN  IF op = "Add32carry"
        THEN Hit(resetTo(fn, v, "ADD", Lit(0), <<v_0_0, v_0_1>>))
        ELSE IF op = "Sub32carry"
        THEN Hit(resetTo(fn, v, "SUB", Lit(0), <<v_0_0, v_0_1>>))
        ELSE IF op = "MULTU" /\ m1 # <<>>
        THEN Hit(resetTo(fn, v, "MOVWconst", Lit(0), <<>>))
        ELSE IF op = "MULTU" /\ m2 # <<>>
        THEN Hit(resetTo(fn, v, "MOVWconst", Lit(0), <<>>))
        ELSE IF op = "MULTU" /\ m3 # <<>>
        THEN LET x == m3[2]
                 n0 == NewValue0(fn, b, "ADDconst", Lit(-1), <<x>>)
                 n1 == NewValue0(n0, b, "MOVWconst", Lit(0), <<>>)
             IN  Hit(resetTo(n1, v, "CMOVZ", Lit(0), <<Len(n0.Values), Len(n1.Values), x>>))
        ELSE IF op = "MULTU" /\ m4 # <<>>
        THEN Hit(resetTo(fn, v, "SRLconst", Lit(32 - log2(AuxIntOf(fn, m4[1]))), <<m4[2]>>))
        ELSE IF op = "MULTU" /\ m5 # <<>>
        THEN Hit(resetTo(fn, v, "MOVWconst",
                         MulShift32(AuxIntOf(fn, m5[1]), AuxIntOf(fn, m5[2])), <<>>))
        ELSE IF op = "DIV" /\ IsConst(fn, v_0_0) /\ IsConst(fn, v_0_1)
        THEN IF Lo(d) = 0
             THEN Panic(reset(fn, v, "MOVWconst"))
             ELSE Hit(resetTo(fn, v, "MOVWconst", SignExt32(Rem32(Lo(c), Lo(d))), <<>>))
        ELSE IF op = "DIVU" /\ IsConst(fn, v_0_0) /\ IsConst(fn, v_0_1)
        THEN IF Lo(d) = 0
             THEN Panic(reset(fn, v, "MOVWconst"))
             ELSE Hit(resetTo(fn, v, "MOVWconst", SignExt32(RemU32(Lo(c), Lo(d))), <<>>))
        ELSE Miss(fn)

rewriteValueMIPS_OpSelect1(fn, v) ==
    LET v_0 == Arg(fn, v, 1)
        b == fn.Values[v].Block
        op == OpOf(fn, v_0)
        v_0_0 == Arg(fn, v_0, 1)
        v_0_1 == Arg(fn, v_0, 2)
        Is(k, x) == IsConst(fn, x) /\ AuxIntOf(fn, x) = Lit(k)
        ZeroFirst(x, y) == Is(0, x)
        OneFirst(x, y) == Is(1, x)
        MinusOneFirst(x, y) == Is(-1, x)
        PowerFirst(x, y) == IsConst(fn, x) /\ isPowerOfTwo(AuxIntOf(fn, x))
        BothConst(x, y) == IsConst(fn, x) /\ IsConst(fn, y)
        m1 == Commute(v_0_0, v_0_1, ZeroFirst)
        m2 == Commute(v_0_0, v_0_1, OneFirst)
        m3 == Commute(v_0_0, v_0_1, MinusOneFirst)
        m4 == Commute(v_0_0, v_0_1, PowerFirst)
        m5 == Commute(v_0_0, v_0_1, BothConst)
        c == AuxIntOf(fn, v_0_0)
        d == AuxIntOf(fn, v_0_1)
    IN  IF op = "Add32carry"
        THEN LET n == NewValue0(fn, b, "ADD", Lit(0), <<v_0_0, v_0_1>>)
             IN  Hit(resetTo(n, v, "SGTU", Lit(0), <<v_0_0, Len(n.Values)>>))
        ELSE IF op = "Sub32carry"
        THEN LET n == NewValue0(fn, b, "SUB", Lit(0), <<v_0_0, v_0_1>>)
             IN  Hit(resetTo(n, v, "SGTU", Lit(0), <<Len(n.Values), v_0_0>>))
        ELSE IF op = "MULTU" /\ m1 # <<>>
        THEN Hit(resetTo(fn, v, "MOVWconst", Lit(0), <<>>))
        ELSE IF op = "MULTU" /\ m2 # <<>>
        THEN Hit(copyOf(fn, v, m2[2]))
        ELSE IF op = "MULTU" /\ m3 # <<>>
        THEN Hit(resetTo(fn, v, "NEG", Lit(0), <<m3[2]>>))
        ELSE IF op = "MULTU" /\ m4 # <<>>
        THEN Hit(resetTo(fn, v, "SLLconst", Lit(log2(AuxIntOf(fn, m4[1]))), <<m4[2]>>))
        ELSE IF op = "MULTU" /\ m5 # <<>>
        THEN Hit(resetTo(fn, v, "MOVWconst",
                         SignExt32(Mul32(Lo(AuxIntOf(fn, m5[1])), Lo(AuxIntOf(fn, m5[2])))),
                         <<>>))
        ELSE IF op = "DIV" /\ IsConst(fn, v_0_0) /\ IsConst(fn, v_0_1)
        THEN IF Lo(d) = 0
             THEN Panic(reset(fn, v, "MOVWconst"))
             ELSE Hit(resetTo(fn, v, "MOVWconst", SignExt32(Quo32(Lo(c), Lo(d))), <<>>))
        ELSE IF op = "DIVU" /\ IsConst(fn, v_0_0) /\ IsConst(fn, v_0_1)
        THEN IF Lo(d) = 0
             THEN Panic(reset(fn, v, "MOVWconst"))
             ELSE Hit(resetTo(fn, v, "MOVWconst", SignExt32(QuoU32(Lo(c), Lo(d))), <<>>))
        ELSE Miss(fn)

\* ---- Move and Zero of a constant size ----
\* The Aux of a Move or a Zero is the type moved; the rules read its alignment.
TypeOf(align) == <<"type", align>>
Alignment(t) == t[2]

\* moveSize(align, config) on a target with 4-byte pointers.
moveSize(align) == IF align % 4 = 0 THEN 4 ELSE IF align % 2 = 0 THEN 2 ELSE 1

\* s > 16 of an AuxInt s.
Over16(s) == Hi(s) > 0 \/ (Hi(s) = 0 /\ (Lo(s) > 16 \/ Lo(s) < 0))

\* b.NewValue0 for each <<op, AuxInt, args>> of vals, in order.
RECURSIVE NewValues(_, _, _, _)
NewValues(fn, b, vals, j) ==
    IF j > Len(vals) THEN fn
    ELSE NewValues(NewValue0(fn, b, vals[j][1], vals[j][2], vals[j][3]), b, vals, j + 1)

\* The result of a rule that expands v into the stores stOp at the offsets
\* offs (highest first): v becomes the store at offs[1], and the values made
\* are, store by store, its operand (v0, v2, ...) and the next store (v1, v3,
\* ...); the last store takes mem.
StoreChain(fn, v, stOp, offs, ptr, mem, Operand(_)) ==
    LET n == Len(fn.Values)
        k == Len(offs)
        operandID(i) == n + 2 * i - 1
        storeID(i) == n + 2 * (i - 1)
        rest(i) == IF i < k THEN storeID(i + 1) ELSE mem
        made == [j \in 1..(2 * k - 1) |->
                    IF j % 2 = 1 THEN Operand(offs[(j + 1) \div 2])
                    ELSE LET i == (j \div 2) + 1
                         IN  <<stOp, Lit(offs[i]), <<ptr, operandID(i), rest(i)>>>>]
    IN  NewValues(resetTo(fn, v, stOp, Lit(offs[1]), <<ptr, operandID(1), rest(1)>>),
                  fn.Values[v].Block, made, 1)

\* The rules of a fixed size in source order: the size matched, the divisor
\* of the alignment the condition asks for (1: no condition), the store, the
\* load of Move, and the offsets.
Rule(size, div, st, ld, offs) == [size |-> size, div |-> div, st |-> st, ld |-> ld, offs |-> offs]
MoveRules ==
    <<Rule(1, 1, "MOVBstore", "MOVBUload", <<0>>),
      Rule(2, 2, "MOVHstore", "MOVHUload", <<0>>),
      Rule(2, 1, "MOVBstore", "MOVBUload", <<1, 0>>),
      Rule(4, 4, "MOVWstore", "MOVWload", <<0>>),
      Rule(4, 2, "MOVHstore", "MOVHUload", <<2, 0>>),
      Rule(4, 1, "MOVBstore", "MOVBUload", <<3, 2, 1, 0>>),
      Rule(3, 1, "MOVBstore", "MOVBUload", <<2, 1, 0>>),
      Rule(8, 4, "MOVWstore", "MOVWload", <<4, 0>>),
      Rule(8, 2, "MOVHstore", "MOVHload", <<6, 4, 2, 0>>),
      Rule(6, 2, "MOVHstore", "MOVHload", <<4, 2, 0>>),
      Rule(12, 4, "MOVWstore", "MOVWload", <<8, 4, 0>>),
      Rule(16, 4, "MOVWstore", "MOVWload", <<12, 8, 4, 0>>)>>
ZeroRules ==
    <<Rule(1, 1, "MOVBstore", "", <<0>>),
      Rule(2, 2, "MOVHstore", "", <<0>>),
      Rule(2, 1, "MOVBstore", "", <<1, 0>>),
      Rule(4, 4, "MOVWstore", "", <<0>>),
      Rule(4, 2, "MOVHstore", "", <<2, 0>>),
      Rule(4, 1, "MOVBstore", "", <<3, 2, 1, 0>>),
      Rule(3, 1, "MOVBstore", "", <<2, 1, 0>>),
      Rule(6, 2, "MOVHstore", "", <<4, 2, 0>>),
      Rule(8, 4, "MOVWstore", "", <<4, 0>>),
      Rule(12, 4, "MOVWstore", "", <<8, 4, 0>>),
      Rule(16, 4, "MOVWstore", "", <<12, 8, 4, 0>>)>>

\* Whether rule r matches a Move or Zero of size s and a type aligned to a.
RuleMatches(r, s, a) == s = Lit(r.size) /\ a % r.div = 0
\* The rules of the table that match, by position.
Matching(rules, s, a) == {i \in 1..Len(rules) : RuleMatches(rules[i], s, a)}
\* The last of a nonempty set of positions.
Last(is) == CHOOSE i \in is : \A j \in is : j <= i
\* The first of a nonempty set of positions.
First(is) == CHOOSE i \in is : \A j \in is : i <= j

rewriteValueMIPS_OpMove(fn, v) ==
    LET v_0 == Arg(fn, v, 1)
        v_1 == Arg(fn, v, 2)
        v_2 == Arg(fn, v, 3)
        s == AuxIntOf(fn, v)
        a == Alignment(fn.Values[v].Aux)
        ms == Matching(MoveRules, s, a)
        r == MoveRules[First(ms)]
    IN  IF s = Lit(0)
        THEN Hit(copyOf(fn, v, v_2))
        ELSE IF ms # {}
        THEN Hit(StoreChain(fn, v, r.st, r.offs, v_0, v_2,
                            LAMBDA off : <<r.ld, Lit(off), <<v_1, v_2>>>>))
        ELSE IF Over16(s) \/ a % 4 # 0
        THEN Hit(NewValue0(resetTo(fn, v, "LoweredMove", Lit(a),
                                   <<v_0, v_1, Len(fn.Values) + 1, v_2>>),
                           fn.Values[v].Block, "ADDconst", Add64(s, Lit(-moveSize(a))),
                           <<v_1>>))
        ELSE Miss(fn)

\* The rules of Zero with the generic rule tried whatever the size and the
\* alignment.
rewriteValueMIPS_OpZeroUnconditional(fn, v) ==
    LET v_0 == Arg(fn, v, 1)
        v_1 == Arg(fn, v, 2)
        s == AuxIntOf(fn, v)
        a == Alignment(fn.Values[v].Aux)
        ms == Matching(ZeroRules, s, a)
        r == ZeroRules[First(ms)]
    IN  IF s = Lit(0)
        THEN Hit(copyOf(fn, v, v_1))
        ELSE IF ms # {}
        THEN Hit(StoreChain(fn, v, r.st, r.offs, v_0, v_1,
                            LAMBDA off : <<"MOVWconst", Lit(0), <<>>>>))
        ELSE Hit(NewValue0(resetTo(fn, v, "LoweredZero", Lit(a),
                                   <<v_0, Len(fn.Values) + 1, v_1>>),
                           fn.Values[v].Block, "ADDconst", Add64(s, Lit(-moveSize(a))),
                           <<v_0>>))
rewriteValueMIPS_OpZero(fn, v) ==
    LET v_0 == Arg(fn, v, 1)
        v_1 == Arg(fn, v, 2)
        s == AuxIntOf(fn, v)
        a == Alignment(fn.Values[v].Aux)
        ms == Matching(ZeroRules, s, a)
        r == ZeroRules[First(ms)]
    IN  IF s = Lit(0)
        THEN Hit(copyOf(fn, v, v_1))
        ELSE IF ms # {}
        THEN Hit(StoreChain(fn, v, r.st, r.offs, v_0, v_1,
                            LAMBDA off : <<"MOVWconst", Lit(0), <<>>>>))
        ELSE IF Over16(s) \/ a % 4 # 0
        THEN Hit(NewValue0(resetTo(fn, v, "LoweredZero", Lit(a),
                                   <<v_0, Len(fn.Values) + 1, v_1>>),
                           fn.Values[v].Block, "ADDconst", Add64(s, Lit(-moveSize(a))),
                           <<v_0>>))
        ELSE Miss(fn)

\* rewriteValueMIPS: the matcher of v's op, false for an op without one.
rewriteValueMIPS(fn, v) ==
    LET op == OpOf(fn, v)
    IN  CASE op = "Add32" -> rewriteValueMIPS_OpAdd32(fn, v)
          [] op = "Const32" -> rewriteValueMIPS_OpConst32(fn, v)
          [] op = "ADD" -> rewriteValueMIPS_OpMIPSADD(fn, v)
          [] op = "ADDconst" -> rewriteValueMIPS_OpMIPSADDconst(fn, v)
          [] op = "AND" -> rewriteValueMIPS_OpMIPSAND(fn, v)
          [] op = "ANDconst" -> rewriteValueMIPS_OpMIPSANDconst(fn, v)
          [] op = "CMOVZ" -> rewriteValueMIPS_OpMIPSCMOVZ(fn, v)
          [] op = "CMOVZzero" -> rewriteValueMIPS_OpMIPSCMOVZzero(fn, v)
          [] op = "MOVBUload" -> rewriteValueMIPS_OpMIPSMOVBUload(fn, v)
          [] op = "MOVBstore" -> rewriteValueMIPS_OpMIPSMOVBstore(fn, v)
          [] op = "MOVBstorezero" -> rewriteValueMIPS_OpMIPSMOVBstorezero(fn, v)
          [] op = "MOVHUload" -> rewriteValueMIPS_OpMIPSMOVHUload(fn, v)
          [] op = "MOVHload" -> rewriteValueMIPS_OpMIPSMOVHload(fn, v)
          [] op = "MOVHstore" -> rewriteValueMIPS_OpMIPSMOVHstore(fn, v)
          [] op = "MOVHstorezero" -> rewriteValueMIPS_OpMIPSMOVHstorezero(fn, v)
          [] op = "MOVWload" -> rewriteValueMIPS_OpMIPSMOVWload(fn, v)
          [] op = "MOVWstore" -> rewriteValueMIPS_OpMIPSMOVWstore(fn, v)
          [] op = "MOVWstorezero" -> rewriteValueMIPS_OpMIPSMOVWstorezero(fn, v)
          [] op = "Move" -> rewriteValueMIPS_OpMove(fn, v)
          [] op = "MUL" -> rewriteValueMIPS_OpMIPSMUL(fn, v)
          [] op = "NEG" -> rewriteValueMIPS_OpMIPSNEG(fn, v)
          [] op = "NOR" -> rewriteValueMIPS_OpMIPSNOR(fn, v)
          [] op = "NORconst" -> rewriteValueMIPS_OpMIPSNORconst(fn, v)
          [] op = "OR" -> rewriteValueMIPS_OpMIPSOR(fn, v)
          [] op = "ORconst" -> rewriteValueMIPS_OpMIPSORconst(fn, v)
          [] op = "SGT" -> rewriteValueMIPS_OpMIPSSGT(fn, v)
          [] op = "SGTU" -> rewriteValueMIPS_OpMIPSSGTU(fn, v)
          [] op = "SGTUconst" -> rewriteValueMIPS_OpMIPSSGTUconst(fn, v)
          [] op = "SGTUzero" -> rewriteValueMIPS_OpMIPSSGTUzero(fn, v)
          [] op = "SGTconst" -> rewriteValueMIPS_OpMIPSSGTconst(fn, v)
          [] op = "SGTzero" -> rewriteValueMIPS_OpMIPSSGTzero(fn, v)
          [] op = "SLL" -> rewriteValueMIPS_OpMIPSSLL(fn, v)
          [] op = "SLLconst" -> rewriteValueMIPS_OpMIPSSLLconst(fn, v)
          [] op = "SRA" -> rewriteValueMIPS_OpMIPSSRA(fn, v)
          [] op = "SRAconst" -> rewriteValueMIPS_OpMIPSSRAconst(fn, v)
          [] op = "SRL" -> rewriteValueMIPS_OpMIPSSRL(fn, v)
          [] op = "SRLconst" -> rewriteValueMIPS_OpMIPSSRLconst(fn, v)
          [] op = "SUB" -> rewriteValueMIPS_OpMIPSSUB(fn, v)
          [] op = "SUBconst" -> rewriteValueMIPS_OpMIPSSUBconst(fn, v)
          [] op = "XOR" -> rewriteValueMIPS_OpMIPSXOR(fn, v)
          [] op = "XORconst" -> rewriteValueMIPS_OpMIPSXORconst(fn, v)
          [] op = "Select0" -> rewriteValueMIPS_OpSelect0(fn, v)
          [] op = "Select1" -> rewriteValueMIPS_OpSelect1(fn, v)
          [] op = "Zero" -> rewriteValueMIPS_OpZero(fn, v)
          [] OTHER -> Miss(fn)

----------------------------------------------------------------------------
(* rewriteBlockMIPS, one definition for each case of its switch on b.Kind. *)

\* The ops a comparison under XORconst [1] may have.
Comparisons == {"SGT", "SGTU", "SGTconst", "SGTUconst", "SGTzero", "SGTUzero"}

\* b.Reset(kind); b.AddControl(w).
Retarget(fn, b, kind, w) == AddControl(Reset(fn, b, kind), b, w)

\* An EQ block no rule applies to.
BlockMIPSEQKept(fn, b) == Miss(fn)
BlockMIPSEQ(fn, b) ==
    LET v_0 == fn.Blocks[b].Controls[1]
        op == OpOf(fn, v_0)
        c == AuxIntOf(fn, v_0)
    IN  IF op = "FPFlagTrue" THEN Hit(Retarget(fn, b, "FPF", Arg(fn, v_0, 1)))
        ELSE IF op = "FPFlagFalse" THEN Hit(Retarget(fn, b, "FPT", Arg(fn, v_0, 1)))
        ELSE IF op = "XORconst" /\ c = Lit(1) /\ OpOf(fn, Arg(fn, v_0, 1)) \in Comparisons
        THEN Hit(Retarget(fn, b, "NE", Arg(fn, v_0, 1)))
        ELSE IF op = "SGTUconst" /\ c = Lit(1) THEN Hit(Retarget(fn, b, "NE", Arg(fn, v_0, 1)))
        ELSE IF op = "SGTUzero" THEN Hit(Retarget(fn, b, "EQ", Arg(fn, v_0, 1)))
        ELSE IF op = "SGTconst" /\ c = Lit(0) THEN Hit(Retarget(fn, b, "GEZ", Arg(fn, v_0, 1)))
        ELSE IF op = "SGTzero" THEN Hit(Retarget(fn, b, "LEZ", Arg(fn, v_0, 1)))
        ELSE IF op = "MOVWconst" /\ c = Lit(0) THEN Hit(Reset(fn, b, "First"))
        ELSE IF op = "MOVWconst" /\ c # Lit(0)
        THEN Hit(swapSuccessors(Reset(fn, b, "First"), b))
        ELSE Miss(fn)

\* GEZ folded as if it were GTZ.
BlockMIPSGEZasGTZ(fn, b) ==
    LET v_0 == fn.Blocks[b].Controls[1]
        c == Lo(AuxIntOf(fn, v_0))
    IN  IF IsConst(fn, v_0) /\ c > 0 THEN Hit(Reset(fn, b, "First"))
        ELSE IF IsConst(fn, v_0) /\ c <= 0
        THEN Hit(swapSuccessors(Reset(fn, b, "First"), b))
        ELSE Miss(fn)
BlockMIPSGEZ(fn, b) ==
    LET v_0 == fn.Blocks[b].Controls[1]
        c == Lo(AuxIntOf(fn, v_0))
    IN  IF IsConst(fn, v_0) /\ c >= 0 THEN Hit(Reset(fn, b, "First"))
        ELSE IF IsConst(fn, v_0) /\ c < 0
        THEN Hit(swapSuccessors(Reset(fn, b, "First"), b))
        ELSE Miss(fn)

BlockMIPSGTZ(fn, b) ==
    LET v_0 == fn.Blocks[b].Controls[1]
        c == Lo(AuxIntOf(fn, v_0))
    IN  IF IsConst(fn, v_0) /\ c > 0 THEN Hit(Reset(fn, b, "First"))
        ELSE IF IsConst(fn, v_0) /\ c <= 0
        THEN Hit(swapSuccessors(Reset(fn, b, "First"), b))
        ELSE Miss(fn)

\* An If block no rule applies to.
BlockIfKept(fn, b) == Miss(fn)
BlockIf(fn, b) == Hit(Retarget(fn, b, "NE", fn.Blocks[b].Controls[1]))

BlockMIPSLEZ(fn, b) ==
    LET v_0 == fn.Blocks[b].Controls[1]
        c == Lo(AuxIntOf(fn, v_0))
    IN  IF IsConst(fn, v_0) /\ c <= 0 THEN Hit(Reset(fn, b, "First"))
        ELSE IF IsConst(fn, v_0) /\ c > 0
        THEN Hit(swapSuccessors(Reset(fn, b, "First"), b))
        ELSE Miss(fn)

BlockMIPSLTZ(fn, b) ==
    LET v_0 == fn.Blocks[b].Controls[1]
        c == Lo(AuxIntOf(fn, v_0))
    IN  IF IsConst(fn, v_0) /\ c < 0 THEN Hit(Reset(fn, b, "First"))
        ELSE IF IsConst(fn, v_0) /\ c >= 0
        THEN Hit(swapSuccessors(Reset(fn, b, "First"), b))
        ELSE Miss(fn)

\* An NE block given to the rules of EQ.
BlockMIPSNEasEQ(fn, b) == BlockMIPSEQ(fn, b)
BlockMIPSNE(fn, b) ==
    LET v_0 == fn.Blocks[b].Controls[1]
        op == OpOf(fn, v_0)
        c == AuxIntOf(fn, v_0)
    IN  IF op = "FPFlagTrue" THEN Hit(Retarget(fn, b, "FPT", Arg(fn, v_0, 1)))
        ELSE IF op = "FPFlagFalse" THEN Hit(Retarget(fn, b, "FPF", Arg(fn, v_0, 1)))
        ELSE IF op = "XORconst" /\ c = Lit(1) /\ OpOf(fn, Arg(fn, v_0, 1)) \in Comparisons
        THEN Hit(Retarget(fn, b, "EQ", Arg(fn, v_0, 1)))
        ELSE IF op = "SGTUconst" /\ c = Lit(1) THEN Hit(Retarget(fn, b, "EQ", Arg(fn, v_0, 1)))
        ELSE IF op = "SGTUzero" THEN Hit(Retarget(fn, b, "NE", Arg(fn, v_0, 1)))
        ELSE IF op = "SGTconst" /\ c = Lit(0) THEN Hit(Retarget(fn, b, "LTZ", Arg(fn, v_0, 1)))
        ELSE IF op = "SGTzero" THEN Hit(Retarget(fn, b, "GTZ", Arg(fn, v_0, 1)))
        ELSE IF op = "MOVWconst" /\ c = Lit(0)
        THEN Hit(swapSuccessors(Reset(fn, b, "First"), b))
        ELSE IF op = "MOVWconst" /\ c # Lit(0) THEN Hit(Reset(fn, b, "First"))
        ELSE Miss(fn)

rewriteBlockMIPS(fn, b) ==
    LET kind == fn.Blocks[b].Kind
    IN  CASE kind = "EQ" -> BlockMIPSEQ(fn, b)
          [] kind = "GEZ" -> BlockMIPSGEZ(fn, b)
          [] kind = "GTZ" -> BlockMIPSGTZ(fn, b)
          [] kind = "If" -> BlockIf(fn, b)
          [] kind = "LEZ" -> BlockMIPSLEZ(fn, b)
          [] kind = "LTZ" -> BlockMIPSLTZ(fn, b)
          [] kind = "NE" -> BlockMIPSNE(fn, b)
          [] OTHER -> Miss(fn)

----------------------------------------------------------------------------
(* The rewrite pass that applies the rules.  For each block: the controls   *)
(* that are copies are replaced by their sources, the block matcher runs,   *)
(* then for each value of the block the arguments that are copies are       *)
(* replaced by their sources and the value matcher runs.  A pass in which   *)
(* nothing changed ends the rewriting.                                      *)

\* copySource(w): the value a chain of copies starting at w leads to.
RECURSIVE copySource(_, _)
copySource(fn, w) == IF OpOf(fn, w) = "Copy" THEN copySource(fn, Arg(fn, w, 1)) ELSE w

WithoutCopyControls(fn, b) ==
    LET cs == fn.Blocks[b].Controls
    IN  IF cs = <<>> THEN fn
        ELSE [fn EXCEPT !.Blocks[b].Controls = [i \in 1..Len(cs) |-> copySource(fn, cs[i])]]

HasCopyArg(fn, v) ==
    \E i \in 1..Len(fn.Values[v].Args) : OpOf(fn, Arg(fn, v, i)) = "Copy"

WithoutCopyArgs(fn, v) ==
    LET args == fn.Values[v].Args
    IN  IF args = <<>> THEN fn
        ELSE [fn EXCEPT !.Values[v].Args = [i \in 1..Len(args) |-> copySource(fn, args[i])]]

\* The loop over the values vs of a block, from the i-th on.
RECURSIVE RewriteValues(_, _, _, _)
RewriteValues(vs, i, fn, ch) ==
    IF i > Len(vs) THEN [f |-> fn, change |-> ch, panic |-> FALSE]
    ELSE LET v == vs[i]
             r == rewriteValueMIPS(WithoutCopyArgs(fn, v), v)
         IN  IF r.panic THEN [f |-> r.f, change |-> ch, panic |-> TRUE]
             ELSE RewriteValues(vs, i + 1, r.f, ch \/ HasCopyArg(fn, v) \/ r.fired)

\* The body of the loop over the blocks.  The values visited are the ones the
\* block holds when its turn comes; values a rule adds wait for the next pass.
applyRewrite(fn, b) ==
    LET r == rewriteBlockMIPS(WithoutCopyControls(fn, b), b)
    IN  RewriteValues(fn.Blocks[b].Values, 1, r.f, r.fired)

\* The blocks in reverse topological order.
BlockOrder(fn) == [i \in 1..Len(fn.Blocks) |-> Len(fn.Blocks) + 1 - i]

----------------------------------------------------------------------------
(* The functions the rules are run on.  All values sit in the entry block,  *)
(* arguments before their users; the last value is the root of an           *)
(* expression over one or two leaves (a constant or an opaque Arg each).    *)
(* The entry block either is Plain or branches on the root to two Ret       *)
(* blocks.                                                                  *)

ConstPool == <<0, 1, -1, 2, 3, 14, 26, 31, 32, -2, MinInt32, MaxInt32, 33, 40, 255>>

Consts == {ConstPool[i] : i \in 1..NumConsts}

ConstLeaves == {<<"MOVWconst", c>> : c \in Consts}
OpaqueLeaf == <<"Arg", 0>>
Leaves == ConstLeaves \cup {OpaqueLeaf}
GenericLeaves == {<<"Const32", c>> : c \in Consts} \cup {OpaqueLeaf}

BinaryOps == {"ADD", "SUB", "MUL", "AND", "OR", "XOR", "NOR", "SLL", "SRL", "SRA", "SGT", "SGTU"}
WideOps == {"MULTU", "DIV", "DIVU"}
Selects == {"Select0", "Select1"}
CondKinds == {"EQ", "NE", "GEZ", "GTZ", "LEZ", "LTZ"}
BranchKinds == CondKinds \cup {"If"}
\* Unary tests with their AuxInt, and the AuxInts given to XORconst.
Tests ==
    {<<"SGTUconst", 1>>, <<"SGTUzero", 0>>, <<"SGTconst", 0>>, <<"SGTconst", 1>>,
     <<"SGTzero", 0>>, <<"FPFlagTrue", 0>>, <<"FPFlagFalse", 0>>}
XorMasks == {0, 1, -1, 2}

Prog(kind, shape, op, aux, op2, aux2, x, y) ==
    [kind |-> kind, shape |-> shape, op |-> op, aux |-> aux, op2 |-> op2, aux2 |-> aux2,
     x |-> x, y |-> y, sym |-> NilNode, sym2 |-> NilNode]

Arithmetic ==
    {Prog("Plain", "bin", op, 0, "", 0, x, y) : op \in BinaryOps, x \in Leaves, y \in Leaves}
    \cup {Prog("Plain", "dup", op, 0, "", 0, OpaqueLeaf, OpaqueLeaf) : op \in BinaryOps}
    \cup {Prog("Plain", "un", "NEG", 0, "", 0, x, x) : x \in Leaves}
    \cup {Prog("Plain", "unbin", s, 0, w, 0, x, y) :
            s \in Selects, w \in WideOps, x \in Leaves, y \in Leaves}
    \cup {Prog("Plain", "unbin", "NEG", 0, op2, 0, x, y) :
            op2 \in {"SUB", "OR"}, x \in Leaves, y \in Leaves}

Lowering ==
    {Prog("Plain", "bin", "Add32", 0, "", 0, x, y) : x \in GenericLeaves, y \in GenericLeaves}

Branches ==
    {Prog(k, "leaf", "", 0, "", 0, x, x) : k \in BranchKinds, x \in Leaves \cup GenericLeaves}
    \cup {Prog(k, "un", t[1], t[2], "", 0, x, x) : k \in BranchKinds, t \in Tests, x \in Leaves}
    \cup {Prog(k, "unun", "XORconst", m, t[1], t[2], OpaqueLeaf, OpaqueLeaf) :
            k \in BranchKinds, m \in XorMasks, t \in Tests}
    \cup {Prog(k, "unbin", "XORconst", m, c, 0, OpaqueLeaf, y) :
            k \in BranchKinds, m \in XorMasks, c \in {"SGT", "SGTU"},
            y \in {OpaqueLeaf, <<"MOVWconst", 0>>}}
    \cup {Prog(k, "bin", op, 0, "", 0, x, y) :
            k \in BranchKinds, op \in {"SUB", "SRL"}, x \in ConstLeaves, y \in ConstLeaves}

\* A branch on XORconst of a comparison whose result is stored as well.
SharedBranches ==
    {Prog(k, "unbinuse", "XORconst", m, c, 0, OpaqueLeaf, OpaqueLeaf) :
        k \in BranchKinds, m \in XorMasks, c \in {"SGT", "SGTU"}}

\* Displacements of loads, stores and address arithmetic, and their symbols.
Offsets == {0, 4, -4, 32764, 32767, -32768, 65536, MaxInt32}
Syms == {NilNode, <<"sym", 1>>}

MemProg(shape, op, aux, sym, op2, aux2, sym2, x) ==
    [Prog("Plain", shape, op, aux, op2, aux2, x, x) EXCEPT !.sym = sym, !.sym2 = sym2]

\* A load or a store through an address computed from a base (addr, and
\* addr2 with a second load from the same address), and a load that follows
\* a store to the base (fwd).
Memory ==
    {MemProg(sh, op, off1, sym, "ADDconst", off2, NilNode, x) :
        sh \in {"addr", "addr2"}, op \in {"MOVWload", "MOVWstore"},
        off1 \in Offsets, sym \in Syms, off2 \in Offsets, x \in {<<"MOVWconst", 0>>}}
    \cup {MemProg("addr", op, off1, sym, "MOVWaddr", off2, sym2, x) :
        op \in {"MOVWload", "MOVWstore"}, off1 \in {0, 4, MaxInt32}, sym \in Syms,
        off2 \in {0, 4, MaxInt32}, sym2 \in Syms, x \in {OpaqueLeaf, <<"MOVWconst", 0>>}}
    \cup {MemProg("fwd", "MOVWload", off1, sym, "MOVWstore", off2, sym2, x) :
        off1 \in {0, 4}, sym \in Syms, off2 \in {0, 4}, sym2 \in Syms,
        x \in {OpaqueLeaf, <<"MOVWconst", 0>>, <<"MOVWconst", 14>>}}

\* A Move and a Zero of each size, of a type of each alignment.
Sizes == 0..17 \cup {20, 32}
Alignments == {1, 2, 4, 8}
Moves ==
    {MemProg("move", "Move", n, TypeOf(a), "", 0, NilNode, OpaqueLeaf) :
        n \in Sizes, a \in Alignments}
Zeros ==
    {MemProg("zero", "Zero", n, TypeOf(a), "", 0, NilNode, OpaqueLeaf) :
        n \in Sizes, a \in Alignments}

Programs ==
    Arithmetic \cup Lowering \cup Branches \cup SharedBranches \cup Memory \cup Moves \cup Zeros

\* A value of the entry block.
Val(id, op, aux, args) == [Value(id, op, 1, args, 1) EXCEPT !.AuxInt = aux]
Leaf(id, l) == Val(id, l[1], Lit(l[2]), <<>>)
Sym(val, sym) == [val EXCEPT !.Aux = sym]
\* A load from (or a store of x to) the address a, with memory m.
Access(id, p, a, x, m) ==
    Sym(Val(id, p.op, Lit(p.aux), IF p.op = "MOVWload" THEN <<a, m>> ELSE <<a, x, m>>), p.sym)

\* The values of program p, in the order they were built.
Tree(p) ==
    CASE p.shape = "leaf" -> <<Leaf(1, p.x)>>
      [] p.shape = "un" -> <<Leaf(1, p.x), Val(2, p.op, Lit(p.aux), <<1>>)>>
      [] p.shape = "bin" -> <<Leaf(1, p.x), Leaf(2, p.y), Val(3, p.op, Lit(p.aux), <<1, 2>>)>>
      [] p.shape = "dup" -> <<Leaf(1, p.x), Val(2, p.op, Lit(p.aux), <<1, 1>>)>>
      [] p.shape = "unun" ->
            <<Leaf(1, p.x), Val(2, p.op2, Lit(p.aux2), <<1>>), Val(3, p.op, Lit(p.aux), <<2>>)>>
      [] p.shape = "unbin" ->
            <<Leaf(1, p.x), Leaf(2, p.y), Val(3, p.op2, Lit(p.aux2), <<1, 2>>),
              Val(4, p.op, Lit(p.aux), <<3>>)>>
      [] p.shape = "unbinuse" ->
            <<Leaf(1, p.x), Leaf(2, p.y), Val(3, p.op2, Lit(p.aux2), <<1, 2>>),
              Val(4, p.op, Lit(p.aux), <<3>>), Leaf(5, <<"InitMem", 0>>),
              Val(6, "MOVWstore", Lit(0), <<1, 4, 5>>)>>
      [] p.shape = "addr" ->
            <<Leaf(1, OpaqueLeaf), Leaf(2, <<"InitMem", 0>>), Leaf(3, p.x),
              Sym(Val(4, p.op2, Lit(p.aux2), <<1>>), p.sym2), Access(5, p, 4, 3, 2)>>
      [] p.shape = "addr2" ->
            <<Leaf(1, OpaqueLeaf), Leaf(2, <<"InitMem", 0>>), Leaf(3, p.x),
              Sym(Val(4, p.op2, Lit(p.aux2), <<1>>), p.sym2), Access(5, p, 4, 3, 2),
              Val(6, "MOVWload", Lit(0), <<4, 2>>)>>
      [] p.shape = "fwd" ->
            <<Leaf(1, OpaqueLeaf), Leaf(2, <<"InitMem", 0>>), Leaf(3, p.x),
              Sym(Val(4, p.op2, Lit(p.aux2), <<1, 3, 2>>), p.sym2),
              Sym(Val(5, p.op, Lit(p.aux), <<1, 4>>), p.sym)>>
      [] p.shape = "move" ->
            <<Leaf(1, OpaqueLeaf), Leaf(2, OpaqueLeaf), Leaf(3, <<"InitMem", 0>>),
              Sym(Val(4, p.op, Lit(p.aux), <<1, 2, 3>>), p.sym)>>
      [] p.shape = "zero" ->
            <<Leaf(1, OpaqueLeaf), Leaf(2, <<"InitMem", 0>>),
              Sym(Val(3, p.op, Lit(p.aux), <<1, 2>>), p.sym)>>

\* The value a branching entry block tests.
ControlOf(p) == IF p.shape = "unbinuse" THEN 4 ELSE Len(Tree(p))

Block(id, kind, controls, succs, preds, values) ==
    [ID |-> id, Kind |-> kind, Controls |-> controls, Succs |-> succs, Preds |-> preds,
     Values |-> values]

MakeRewriteFunc(p) ==
    LET vals == Tree(p)
        n == Len(vals)
        ids == [i \in 1..n |-> i]
    IN  [Entry |-> 1,
         Blocks |-> IF p.kind = "Plain"
                    THEN <<Block(1, "Plain", <<>>, <<2>>, <<>>, ids),
                           Block(2, "Ret", <<>>, <<>>, <<1>>, <<>>)>>
                    ELSE <<Block(1, p.kind, <<ControlOf(p)>>, <<2, 3>>, <<>>, ids),
                           Block(2, "Ret", <<>>, <<>>, <<1>>, <<>>),
                           Block(3, "Ret", <<>>, <<>>, <<1>>, <<>>)>>,
         Values |-> vals,
         Names |-> <<>>,
         NamedValues |-> <<>>]

\* The root of the expression: the last value built.
Root(fn) == Len(fn.Values)

InitRewrite ==
    /\ \E p \in Programs : f = MakeRewriteFunc(p)
    /\ f0 = f
    /\ fixed = f
    /\ pc = "rewrite"
    /\ visitOrder = <<>>
    /\ change = FALSE
    /\ bcur = 1
    /\ passes = 1
    /\ live = <<>>
    /\ changed = FALSE
    /\ sweeps = 0
    /\ interfere = <<>>
    /\ names = <<>>
    /\ phiArg = <<>>
    /\ RegAlloc = <<>>
    /\ locations = <<>>
    /\ slots = <<>>
    /\ cursor = 0
    /\ autos = 0
    /\ run = 1
    /\ firstHome = <<>>

\* The pass takes the next block.  A panic in a matcher ends the compilation.
RewriteBlock ==
    /\ pc \in {"rewrite", "again"}
    /\ bcur <= Len(f.Blocks)
    /\ LET r == applyRewrite(f, BlockOrder(f)[bcur])
       IN  /\ f' = r.f
           /\ change' = (change \/ r.change)
           /\ pc' = IF r.panic THEN "panic" ELSE pc
    /\ bcur' = bcur + 1
    /\ UNCHANGED <<passes, f0, fixed>>
    /\ UNCHANGED saVars

\* The pass changed something: another pass follows.
NextPass ==
    /\ pc = "rewrite"
    /\ bcur > Len(f.Blocks)
    /\ change
    /\ passes < MaxPasses
    /\ passes' = passes + 1
    /\ bcur' = 1
    /\ change' = FALSE
    /\ UNCHANGED <<f, pc, f0, fixed>>
    /\ UNCHANGED saVars

\* The pass changed nothing: the rewriting is over.
Finish ==
    /\ pc = "rewrite"
    /\ bcur > Len(f.Blocks)
    /\ ~change
    /\ pc' = "fixpoint"
    /\ fixed' = f
    /\ UNCHANGED <<f, change, bcur, passes, f0>>
    /\ UNCHANGED saVars

\* One more pass over the function the rewriting left.
RunAgain ==
    /\ pc = "fixpoint"
    /\ pc' = "again"
    /\ bcur' = 1
    /\ change' = FALSE
    /\ UNCHANGED <<f, passes, f0, fixed>>
    /\ UNCHANGED saVars

Settle ==
    /\ pc = "again"
    /\ bcur > Len(f.Blocks)
    /\ pc' = "settled"
    /\ UNCHANGED <<f, change, bcur, passes, f0, fixed>>
    /\ UNCHANGED saVars

NextRewrite ==
    \/ RewriteBlock
    \/ NextPass
    \/ Finish
    \/ RunAgain
    \/ Settle

SpecRewrite == InitRewrite /\ [][NextRewrite]_vars

----------------------------------------------------------------------------
(* Live ranges, read off the function itself: where each spilled value is   *)
(* defined and where it is used (by a LoadReg, or by a stack phi on the     *)
(* edge from the predecessor the argument belongs to).                      *)

Done == pc = "done"

\* The spill-class values of f: StoreReg ops and stack phis.
SpillClass(fn) ==
    {id \in IDs : /\ fn.Values[id].Block # 0
                  /\ \/ fn.Values[id].Op = "StoreReg"
                     \/ isStackPhi(fn, InitialRegAlloc(fn), id)}

StackPhis(fn) == {id \in SpillClass(fn) : fn.Values[id].Op = "Phi"}

ArgsOf(fn, id) == {fn.Values[id].Args[n] : n \in 1..Len(fn.Values[id].Args)}

PosIn(fn, id) ==
    LET vs == fn.Blocks[fn.Values[id].Block].Values
    IN  CHOOSE k \in 1..Len(vs) : vs[k] = id

IsStackSlot(h) == h # NilLoc /\ ~IsRegister(h)

\* w is loaded at position k of block b.
LoadAt(fn, b, k, w) ==
    LET v == fn.Values[fn.Blocks[b].Values[k]]
    IN  v.Op = "LoadReg" /\ v.Args[1] = w

HasLoad(fn, b, w) == \E k \in 1..Len(fn.Blocks[b].Values) : LoadAt(fn, b, k, w)

\* w is used by a stack phi of block c on the edge b -> c.
UsedOnEdge(fn, b, c, w) ==
    \E p \in StackPhis(fn) :
        /\ fn.Values[p].Block = c
        /\ \E i \in 1..Len(fn.Blocks[c].Preds) :
              fn.Blocks[c].Preds[i] = b /\ fn.Values[p].Args[i] = w

\* One round of the backward propagation: the blocks at whose end w is live,
\* given that it is live at the end of the blocks of S.
LiveOutStep(fn, w, S) ==
    {b \in 1..Len(fn.Blocks) :
        \E j \in 1..Len(fn.Blocks[b].Succs) :
            LET c == fn.Blocks[b].Succs[j]
            IN  \/ UsedOnEdge(fn, b, c, w)
                \/ /\ fn.Values[w].Block # c
                   /\ HasLoad(fn, c, w) \/ c \in S}

\* The blocks at whose end w is live: the least fixed point.
RECURSIVE LiveOutFrom(_, _, _)
LiveOutFrom(fn, w, S) ==
    LET T == LiveOutStep(fn, w, S)
    IN  IF T = S THEN S ELSE LiveOutFrom(fn, w, T)

LiveOutBlocks(fn, w) == LiveOutFrom(fn, w, {})

\* w, live at the end of the blocks of lo, is live just after position k of block b.
LiveAfter(fn, lo, w, b, k) ==
    /\ fn.Values[w].Block = b => PosIn(fn, w) < k
    /\ \/ b \in lo
       \/ \E j \in (k + 1)..Len(fn.Blocks[b].Values) : LoadAt(fn, b, j, w)

\* The pairs of distinct spill-class values of equal type whose live ranges
\* interfere: one of the two is live at the point where the other is defined.
InterferingPairs(fn) ==
    LET sc == SpillClass(fn)
        lo == [w \in sc |-> LiveOutBlocks(fn, w)]
        LiveAtDef(w, v) == LiveAfter(fn, lo[w], w, fn.Values[v].Block, PosIn(fn, v))
    IN  {pr \in sc \X sc :
            /\ pr[1] # pr[2]
            /\ fn.Values[pr[1]].Type = fn.Values[pr[2]].Type
            /\ LiveAtDef(pr[1], pr[2]) \/ LiveAtDef(pr[2], pr[1])}

----------------------------------------------------------------------------
(* Claims about stackalloc. *)

\* C1: after stackalloc returns, any two distinct spill-class values (StoreReg
\* or stack phi) of equal type whose live ranges interfere (one is live at the
\* point where the other is defined) have different stack slots as their homes.
C1_InterferingValuesHaveDifferentSlots ==
    Done => \A pr \in InterferingPairs(F) :
                /\ IsStackSlot(RegAlloc[pr[1]])
                /\ IsStackSlot(RegAlloc[pr[2]])
                /\ RegAlloc[pr[1]] # RegAlloc[pr[2]]

\* Witness of C1: stackalloc has returned on a function in which the two
\* ordinary spills interfere and have equal type, and both were given slots of
\* the pool of that type.
C1_Witness ==
    /\ Done
    /\ <<idS1, idS2>> \in InterferingPairs(F)
    /\ RegAlloc[idS1].N[1] = "auto"
    /\ RegAlloc[idS2].N[1] = "auto"
    /\ RegAlloc[idS1] # RegAlloc[idS2]

\* C2: after stackalloc returns, every stack phi and each one of its arguments
\* have the same stack slot as their home.
C2_StackPhiSharesSlotWithArgs ==
    Done => \A p \in StackPhis(F) :
                /\ IsStackSlot(RegAlloc[p])
                /\ \A a \in ArgsOf(F, p) : RegAlloc[a] = RegAlloc[p]

\* Witness of C2: stackalloc has returned on a function whose stack phi has
\* three arguments on three predecessor edges, and the four values share a slot.
C2_Witness ==
    /\ Done
    /\ Len(F.Values[idP].Args) = 3
    /\ Cardinality(ArgsOf(F, idP)) = 3
    /\ IsStackSlot(RegAlloc[idP])
    /\ \A a \in ArgsOf(F, idP) : RegAlloc[a] = RegAlloc[idP]

\* C3: after stackalloc returns, two values whose types are not equal never
\* have the same stack slot as home: every slot of the per-type pool is the
\* home only of values of the type it was created for.
C3_UnequalTypesNeverShareSlot ==
    Done =>
        /\ \A v, w \in IDs :
              IsStackSlot(RegAlloc[v]) /\ RegAlloc[v] = RegAlloc[w]
                  => F.Values[v].Type = F.Values[w].Type
        /\ \A t \in DOMAIN locations : \A i \in 1..Len(locations[t]) :
              /\ locations[t][i].Type = t
              /\ \A v \in IDs : RegAlloc[v] = locations[t][i] => F.Values[v].Type = t

\* Witness of C3: stackalloc has returned with two spills of unequal types,
\* each in the first slot of the pool of its own type, the first of them
\* carrying a name of the other type.
C3_Witness ==
    /\ Done
    /\ F.Values[idS1].Type # F.Values[idS2].Type
    /\ names[idR1].N # NilNode
    /\ names[idR1].Type # F.Values[idS1].Type
    /\ slots[idS1] = 0
    /\ slots[idS2] = 0
    /\ RegAlloc[idS1] # RegAlloc[idS2]

----------------------------------------------------------------------------
(* The rewrite rules: what the claims speak about. *)

\* The branch a conditional block of the given kind takes on the constant c:
\* TRUE for its first successor.
Taken(kind, c) ==
    CASE kind = "EQ" -> c = Lit(0)
      [] kind = "NE" -> c # Lit(0)
      [] kind = "GEZ" -> Lo(c) >= 0
      [] kind = "GTZ" -> Lo(c) > 0
      [] kind = "LEZ" -> Lo(c) <= 0
      [] kind = "LTZ" -> Lo(c) < 0

BlockIDs(fn) == 1..Len(fn.Blocks)

\* rewriteBlockMIPS reports no change on any block.
NoBlockRuleFires(fn) == \A b \in BlockIDs(fn) : ~rewriteBlockMIPS(fn, b).fired

HasConstControl(fn, b) ==
    fn.Blocks[b].Controls # <<>> /\ IsConst(fn, fn.Blocks[b].Controls[1])

\* C4: once rewriteBlockMIPS reports no change on any block, no block has
\* kind If, and no block of kind EQ, NE, GEZ, GTZ, LEZ or LTZ has a MOVWconst
\* as its control value.
C4_NoIfAndNoConstantControlLeft ==
    NoBlockRuleFires(f) =>
        \A b \in BlockIDs(f) :
            /\ f.Blocks[b].Kind # "If"
            /\ f.Blocks[b].Kind \in CondKinds => ~HasConstControl(f, b)

\* An If block on a constant has been rewritten until no block rule fires.
C4_Witness ==
    /\ pc = "fixpoint"
    /\ f0.Blocks[1].Kind = "If"
    /\ HasConstControl(f0, 1)
    /\ NoBlockRuleFires(f)
    /\ f.Blocks[1].Kind = "First"

\* C5: rewriteBlockMIPS turns a conditional block whose control is
\* MOVWconst [c] into a First block; its successors stay in order when the
\* branch on c is taken (EQ: c = 0, NE: c != 0, GEZ, GTZ, LEZ, LTZ: on
\* int32(c)) and are swapped when it is not, so the first successor is the
\* one the branch goes to.
C5_FoldedBranchKeepsItsTarget ==
    \A b \in BlockIDs(f) :
        (f.Blocks[b].Kind \in CondKinds /\ HasConstControl(f, b)) =>
            LET c == AuxIntOf(f, f.Blocks[b].Controls[1])
                r == rewriteBlockMIPS(f, b)
                old == f.Blocks[b].Succs
                new == r.f.Blocks[b]
            IN  /\ r.fired
                /\ new.Kind = "First"
                /\ new.Controls = <<>>
                /\ new.Succs = IF Taken(f.Blocks[b].Kind, c) THEN old ELSE <<old[2], old[1]>>

\* A LEZ block on a positive constant has been folded, its successors swapped.
C5_Witness ==
    /\ f0.Blocks[1].Kind = "LEZ"
    /\ HasConstControl(f0, 1)
    /\ Lo(AuxIntOf(f0, f0.Blocks[1].Controls[1])) > 0
    /\ f.Blocks[1].Kind = "First"
    /\ f.Blocks[1].Succs = <<f0.Blocks[1].Succs[2], f0.Blocks[1].Succs[1]>>

\* Every argument of w is a MOVWconst.
ConstOperands(fn, w) ==
    \A i \in 1..Len(fn.Values[w].Args) : IsConst(fn, Arg(fn, w, i))

\* The root is an arithmetic op all of whose operands are constants.
IsConstArith(fn) ==
    LET r == Root(fn)
    IN  \/ OpOf(fn, r) \in BinaryOps \cup {"NEG"} /\ ConstOperands(fn, r)
        \/ /\ OpOf(fn, r) \in Selects
           /\ OpOf(fn, Arg(fn, r, 1)) \in WideOps
           /\ ConstOperands(fn, Arg(fn, r, 1))

\* The unsigned high word of uint32(x) * uint32(y).
MulHiU32(x, y) == Lo(MulShift32(ZeroExt32(x), ZeroExt32(y)))

\* The values the 32-bit machine operation may leave in its result register
\* on the int32 operands x and y.  A shift by 32 or more is given both the
\* result of shifting every bit out and the result of using the low five
\* bits of the count; a division by zero is given any result.
Machine(op, wide, x, y) ==
    CASE op = "ADD" -> {Add32(x, y)}
      [] op = "SUB" -> {Sub32(x, y)}
      [] op = "MUL" -> {Mul32(x, y)}
      [] op = "AND" -> {And32(x, y)}
      [] op = "OR" -> {Or32(x, y)}
      [] op = "XOR" -> {Xor32(x, y)}
      [] op = "NOR" -> {Not32(Or32(x, y))}
      [] op = "NEG" -> {Neg32(x)}
      [] op = "SLL" -> {Shl32(x, y), Shl32(x, y % 32)}
      [] op = "SRL" -> {Shr32(x, y), Shr32(x, y % 32)}
      [] op = "SRA" -> {Sar32(x, y), Sar32(x, y % 32)}
      [] op = "SGT" -> {IF x > y THEN 1 ELSE 0}
      [] op = "SGTU" -> {IF LessU32(y, x) THEN 1 ELSE 0}
      [] op = "Select0" /\ wide = "MULTU" -> {MulHiU32(x, y)}
      [] op = "Select1" /\ wide = "MULTU" -> {Mul32(x, y)}
      [] op = "Select0" /\ wide = "DIV" -> IF y = 0 THEN Int32 ELSE {Rem32(x, y)}
      [] op = "Select1" /\ wide = "DIV" -> IF y = 0 THEN Int32 ELSE {Quo32(x, y)}
      [] op = "Select0" /\ wide = "DIVU" -> IF y = 0 THEN Int32 ELSE {RemU32(x, y)}
      [] op = "Select1" /\ wide = "DIVU" -> IF y = 0 THEN Int32 ELSE {QuoU32(x, y)}

\* Machine on the root of fn and its constant operands.
MachineResults(fn) ==
    LET r == Root(fn)
        op == OpOf(fn, r)
        w == IF op \in Selects THEN Arg(fn, r, 1) ELSE r
        x == Lo(AuxIntOf(fn, Arg(fn, w, 1)))
        y == IF Len(fn.Values[w].Args) > 1 THEN Lo(AuxIntOf(fn, Arg(fn, w, 2))) ELSE 0
    IN  Machine(op, OpOf(fn, w), x, y)

\* The value the root has been rewritten to: a value the rules replaced by
\* an existing value x is a Copy of x and stands for x.
Rewritten(fn, fn0) == copySource(fn, Root(fn0))

\* C6: an arithmetic op whose operands are all MOVWconst is rewritten without
\* failure, and at the fixpoint it is a MOVWconst whose low 32 bits are the
\* result of the machine operation on the operands.
C6_ConstantOperandsFoldToMachineResult ==
    IsConstArith(f0) =>
        /\ pc # "panic"
        /\ pc = "fixpoint" =>
              /\ IsConst(f, Rewritten(f, f0))
              /\ Lo(AuxIntOf(f, Rewritten(f, f0))) \in MachineResults(f0)

\* w is Select0 or Select1 of a DIV or DIVU whose divisor is MOVWconst [0].
IsDivisionByZero(fn, w) ==
    /\ OpOf(fn, w) \in Selects
    /\ OpOf(fn, Arg(fn, w, 1)) \in {"DIV", "DIVU"}
    /\ IsConst(fn, Arg(fn, Arg(fn, w, 1), 2))
    /\ AuxIntOf(fn, Arg(fn, Arg(fn, w, 1), 2)) = Lit(0)

\* C7: rewriteValueMIPS applied to Select0 or Select1 of a DIV or DIVU whose
\* divisor is MOVWconst [0] returns without a panic and leaves the value, and
\* with it the division, as it was.
C7_DivisionByZeroIsLeftInPlace ==
    \A w \in 1..Len(f.Values) :
        IsDivisionByZero(f, w) =>
            LET r == rewriteValueMIPS(f, w)
            IN  ~r.panic /\ ~r.fired /\ r.f = f

\* The root is Add32 of two Const32.
IsAdd32OfConst32(fn) ==
    /\ OpOf(fn, Root(fn)) = "Add32"
    /\ \A i \in 1..2 : OpOf(fn, Arg(fn, Root(fn), i)) = "Const32"

C9_SecondPassChangesNothing ==
    pc \in {"again", "settled"} => (f = fixed /\ ~change)

\* The second pass is over, on a function that took several passes to settle.
C9_Witness ==
    /\ pc = "settled"
    /\ passes >= 3
    /\ f # f0
    /\ f = fixed

\* C10: for a fixed function stackalloc gives every value the same home on
\* every run; the named slot chosen for a value that has several names does
\* not depend on the order in which a map delivers its keys.
C10_SameHomesOnEveryRun ==
    (Done /\ run = 2) => RegAlloc = firstHome

\* Witness of C10: the second run has returned on a function in which the
\* value stored by s1 has two names, and s1 has its named slot in both runs.
C10_Witness ==
    /\ Done
    /\ run = 2
    /\ Len(F.Names) = 2
    /\ \A i \in 1..2 : \E k \in 1..Len(F.NamedValues[F.Names[i]]) :
          F.NamedValues[F.Names[i]][k] = idR1
    /\ RegAlloc[idS1] = F.Names[2]
    /\ firstHome[idS1] = F.Names[2]

----------------------------------------------------------------------------
(* The values dead-code elimination keeps: the ones reached, through        *)
(* arguments, from a block control or from a value with an effect.          *)

Effects == {"MOVWstore", "MOVWstorezero"}

ControlSet(fn, b) == {fn.Blocks[b].Controls[i] : i \in 1..Len(fn.Blocks[b].Controls)}

RECURSIVE Reach(_, _)
Reach(fn, S) ==
    LET T == S \cup UNION {ArgsOf(fn, w) : w \in S}
    IN  IF T = S THEN S ELSE Reach(fn, T)

LiveValues(fn) ==
    Reach(fn, UNION {ControlSet(fn, b) : b \in BlockIDs(fn)}
              \cup {w \in 1..Len(fn.Values) : OpOf(fn, w) \in Effects})

HasControl(fn, b) == fn.Blocks[b].Controls # <<>>

\* Block b branches (EQ or NE) on XORconst [1] (SGT x y).
BranchesOnNotSGT(fn, b) ==
    /\ fn.Blocks[b].Kind \in {"EQ", "NE"}
    /\ OpOf(fn, fn.Blocks[b].Controls[1]) = "XORconst"
    /\ AuxIntOf(fn, fn.Blocks[b].Controls[1]) = Lit(1)
    /\ OpOf(fn, Arg(fn, fn.Blocks[b].Controls[1], 1)) = "SGT"

Inverse(kind) == IF kind = "EQ" THEN "NE" ELSE "EQ"

\* What rewriteBlockMIPS does to such a block: the kind is inverted, the SGT
\* becomes the control, the successors and every value stay as they were.
InvertedOnSGT(fn, b) ==
    LET x == fn.Blocks[b].Controls[1]
        r == rewriteBlockMIPS(fn, b)
    IN  /\ r.fired
        /\ ~r.panic
        /\ r.f.Blocks[b].Kind = Inverse(fn.Blocks[b].Kind)
        /\ r.f.Blocks[b].Controls = <<Arg(fn, x, 1)>>
        /\ OpOf(r.f, Arg(fn, x, 1)) = "SGT"
        /\ r.f.Blocks[b].Succs = fn.Blocks[b].Succs

\* C11, as stated: for a block branching on XORconst [1] (SGT x y), the
\* block rewriter inverts the kind, makes the SGT the control and removes the
\* XORconst, so that the graph has one fewer value.
C11_InvertedBranchHasOneFewerValue ==
    pc \in {"rewrite", "fixpoint", "again", "settled"} =>
    \A b \in BlockIDs(f) :
        (HasControl(f, b) /\ BranchesOnNotSGT(f, b)) =>
            /\ InvertedOnSGT(f, b)
            /\ Cardinality(LiveValues(rewriteBlockMIPS(f, b).f))
                   = Cardinality(LiveValues(f)) - 1

\* C11, amended: for a block branching on XORconst [1] (SGT x y), the block
\* rewriter inverts the kind (NE becomes EQ, EQ becomes NE) and makes the SGT
\* the control.  It removes no value: the XORconst stays in its block with
\* one use fewer.  When the branch was its only use it is dead afterwards and
\* the live graph has one fewer value; when it has another live use the live
\* graph keeps every value.
C11_InvertedBranchDropsXorWhenOnlyUse ==
    pc \in {"rewrite", "fixpoint", "again", "settled"} =>
    \A b \in BlockIDs(f) :
        (HasControl(f, b) /\ BranchesOnNotSGT(f, b)) =>
            LET x == f.Blocks[b].Controls[1]
                g == rewriteBlockMIPS(f, b).f
            IN  /\ InvertedOnSGT(f, b)
                /\ g.Values = f.Values
                /\ \A c \in BlockIDs(f) : g.Blocks[c].Values = f.Blocks[c].Values
                /\ Uses(g, x) = Uses(f, x) - 1
                /\ Uses(f, x) = 1 => LiveValues(g) = LiveValues(f) \ {x}
                /\ (\E w \in LiveValues(g) : x \in ArgsOf(g, w))
                      => LiveValues(g) = LiveValues(f)

\* The rewriting of NE (XORconst [1] (SGT x y)) has ended: the block is EQ on
\* the SGT and the XORconst, now unused, is the one value no longer live.
C11_Witness ==
    /\ pc = "fixpoint"
    /\ HasControl(f0, 1)
    /\ BranchesOnNotSGT(f0, 1)
    /\ f0.Blocks[1].Kind = "NE"
    /\ f.Blocks[1].Kind = "EQ"
    /\ OpOf(f, f.Blocks[1].Controls[1]) = "SGT"
    /\ Uses(f, f0.Blocks[1].Controls[1]) = 0
    /\ LiveValues(f) = LiveValues(f0) \ {f0.Blocks[1].Controls[1]}

\* C12: a block of kind If whose control is FPFlagTrue cmp is, once the
\* rewriting has reached its fixpoint, a block of kind FPT whose control is
\* cmp and whose successors are in the original order.
C12_IfOnFPFlagTrueBecomesFPT ==
    (/\ pc \in {"fixpoint", "again", "settled"}
     /\ f0.Blocks[1].Kind = "If"
     /\ OpOf(f0, f0.Blocks[1].Controls[1]) = "FPFlagTrue") =>
        /\ f.Blocks[1].Kind = "FPT"
        /\ f.Blocks[1].Controls = <<Arg(f0, f0.Blocks[1].Controls[1], 1)>>
        /\ f.Blocks[1].Succs = f0.Blocks[1].Succs

\* If (FPFlagTrue cmp) has been rewritten, in two passes, to FPT cmp.
C12_Witness ==
    /\ pc = "fixpoint"
    /\ passes >= 3
    /\ f0.Blocks[1].Kind = "If"
    /\ OpOf(f0, f0.Blocks[1].Controls[1]) = "FPFlagTrue"
    /\ f.Blocks[1].Kind = "FPT"
    /\ f.Blocks[1].Controls = <<1>>
    /\ f.Blocks[1].Succs = <<2, 3>>

\* n, an int64, is in the range of a signed 16-bit immediate.
FitsInt16(n) ==
    \/ Hi(n) = 0 /\ Lo(n) >= 0 /\ Lo(n) <= 32767
    \/ Hi(n) = -1 /\ Lo(n) < 0 /\ Lo(n) >= -32768

\* v is a MOVWload [off1] (ADDconst [off2] ptr) mem with off1+off2 in 16 bits.
IsFusableLoad(fn, v) ==
    /\ OpOf(fn, v) = "MOVWload"
    /\ OpOf(fn, Arg(fn, v, 1)) = "ADDconst"
    /\ FitsInt16(Add64(AuxIntOf(fn, v), AuxIntOf(fn, Arg(fn, v, 1))))

\* C13: a MOVWload [off1] whose address is ADDconst [off2] ptr, with
\* off1+off2 in the range of a signed 16-bit immediate, is rewritten by
\* rewriteValueMIPS to MOVWload [off1+off2] ptr mem with the same symbol,
\* however many uses the ADDconst has.
C13_LoadFromADDconstIsFused ==
    pc \in {"rewrite", "fixpoint", "again", "settled"} =>
    \A v \in 1..Len(f.Values) :
        IsFusableLoad(f, v) =>
            LET x == Arg(f, v, 1)
                r == rewriteValueMIPS(f, v)
            IN  /\ r.fired
                /\ ~r.panic
                /\ r.f.Values[v].Op = "MOVWload"
                /\ r.f.Values[v].AuxInt = Add64(AuxIntOf(f, v), AuxIntOf(f, x))
                /\ r.f.Values[v].Args = <<Arg(f, x, 1), Arg(f, v, 2)>>
                /\ r.f.Values[v].Aux = f.Values[v].Aux
                /\ \A w \in 1..Len(f.Values) : w # v => r.f.Values[w] = f.Values[w]

\* The load from base+4, whose address a second load uses too, has become
\* MOVWload [4] base mem.
C13_Witness ==
    /\ pc = "fixpoint"
    /\ Len(f0.Values) = 6
    /\ OpOf(f0, 5) = "MOVWload" /\ AuxIntOf(f0, 5) = Lit(0) /\ f0.Values[5].Args = <<4, 2>>
    /\ OpOf(f0, 4) = "ADDconst" /\ AuxIntOf(f0, 4) = Lit(4) /\ f0.Values[4].Args = <<1>>
    /\ Uses(f0, 4) = 2
    /\ OpOf(f, 5) = "MOVWload" /\ AuxIntOf(f, 5) = Lit(4) /\ f.Values[5].Args = <<1, 2>>

----------------------------------------------------------------------------
(* More claims about liveSpills and stackalloc. *)

\* Every live set of lv1 is contained in the one of lv2 for the same edge.
LiveGrows(lv1, lv2) ==
    \A b \in DOMAIN lv1 : \A j \in DOMAIN lv1[b] : lv1[b][j] \subseteq lv2[b][j]

\* C14: liveSpills terminates on every control-flow graph of the family,
\* those with a loop and a stack phi included: from sweep to sweep the live
\* sets of the edges only grow, a sweep that changed a set is followed by
\* another one, the first sweep that changes no set is the last, and
\* liveSpills is eventually left.
C14_LiveSpillsTerminates ==
    /\ [][pc = "liveSpills" =>
            /\ LiveGrows(live, live')
            /\ (pc' = "liveSpills") = (live' # live)
            /\ (pc' = "interfere") = (live' = live)]_vars
    /\ <>(pc # "liveSpills")

\* liveSpills has returned, after three sweeps or more, on the graph with a
\* loop whose stack phi is loaded inside the loop.
C14_Witness ==
    /\ pc = "interfere"
    /\ sweeps >= 3
    /\ F.Blocks[2].Succs = <<3, 4>>
    /\ F.Blocks[3].Succs = <<2>>
    /\ isStackPhi(F, RegAlloc, idP)
    /\ idP \in live[2][1]

\* The values a LoadReg can load: the spill-class values and the input
\* arguments.
Spilled(fn) == SpillClass(fn) \cup {id \in IDs : fn.Values[id].Op = "Arg"}

\* w is live at the start of block c, the stack phis of c left aside: c does
\* not define w, and w is loaded in c or live at the end of c.
LiveAtStart(fn, w, c) ==
    /\ fn.Values[w].Block # c
    /\ HasLoad(fn, c, w) \/ c \in LiveOutBlocks(fn, w)

\* The spilled values live on the edge from p to its j-th successor.
LiveOnEdge(fn, p, j) ==
    LET c == fn.Blocks[p].Succs[j]
    IN  {w \in Spilled(fn) : LiveAtStart(fn, w, c)}
        \cup {fn.Values[phi].Args[i] :
                 phi \in {x \in StackPhis(fn) : fn.Values[x].Block = c},
                 i \in {k \in 1..Len(fn.Blocks[c].Preds) : fn.Blocks[c].Preds[k] = p}}

\* C15: for every block p and every successor index j, the set liveSpills
\* returns for (p, j) is exactly the set of spilled values live on the edge
\* from p to p.Succs[j]: the values live at the start of that successor (its
\* stack phis excluded) and, for each stack phi of the successor, the argument
\* that belongs to this edge and none that belongs to another edge.
C15_LiveSetsAreTheValuesLiveOnTheEdge ==
    pc \notin {"liveSpills"} =>
        \A p \in 1..Len(F.Blocks) : \A j \in 1..Len(F.Blocks[p].Succs) :
            live[p][j] = LiveOnEdge(F, p, j)

\* liveSpills has returned on the three-way join: the edge from block 4 to the
\* join carries the second argument of the stack phi and neither the first
\* nor the third, besides a spill loaded in the join block.
C15_Witness ==
    /\ pc = "interfere"
    /\ F.Blocks[4].Succs = <<6>>
    /\ F.Blocks[6].Preds = <<2, 4, 5>>
    /\ idQ(2) \in live[4][1]
    /\ idQ(1) \notin live[4][1]
    /\ idQ(3) \notin live[4][1]
    /\ idS1 \in live[4][1]
    /\ live[4][1] = LiveOnEdge(F, 4, 1)

\* C16: once stackalloc has returned, every StoreReg and every value that was a
\* stack phi when it was entered has a stack slot as home, the StoreRegs that
\* are arguments of a stack phi like the others.
C16_EverySpillHasAStackSlot ==
    Done => \A id \in SpillClass(F) : IsStackSlot(getHome(RegAlloc, id))

\* stackalloc has returned from a function with an ordinary spill, a stack phi
\* and the StoreRegs that are its arguments, all of them with a slot.
C16_Witness ==
    /\ Done
    /\ phiArg[idQ(1)] /\ IsStackSlot(RegAlloc[idQ(1)])
    /\ ~phiArg[idS1] /\ IsStackSlot(RegAlloc[idS1])
    /\ IsStackSlot(RegAlloc[idP])

ArgValues(fn) == {id \in IDs : fn.Values[id].Op = "Arg" /\ fn.Values[id].Block # 0}

\* The input argument a can still be loaded after position k of block b: a
\* LoadReg of it follows in the block or on a path from the end of the block.
LoadableAfter(fn, a, b, k) ==
    \/ b \in LiveOutBlocks(fn, a)
    \/ \E j \in (k + 1)..Len(fn.Blocks[b].Values) : LoadAt(fn, b, j, a)

\* C18: an input argument counts as live from the start of the entry block:
\* in the interference graph stackalloc has built, every spill-class value of
\* its type defined where the argument can still be loaded, before the
\* argument's own place in the entry block too, is in interference with it;
\* and when stackalloc has returned no spill-class value defined at such a
\* point has the argument's stack slot as home.
C18_ArgumentSlotIsNotClobbered ==
    /\ pc = "names" =>
          \A a \in ArgValues(F) : \A v \in SpillClass(F) :
              (/\ LoadableAfter(F, a, F.Values[v].Block, PosIn(F, v))
               /\ F.Values[v].Type = F.Values[a].Type) => a \in interfere[v]
    /\ Done =>
          \A a \in ArgValues(F) : \A v \in SpillClass(F) :
              LoadableAfter(F, a, F.Values[v].Block, PosIn(F, v)) =>
                  /\ IsStackSlot(getHome(RegAlloc, a))
                  /\ getHome(RegAlloc, v) # getHome(RegAlloc, a)

\* s1 stores the argument's variable x ahead of the argument in the entry
\* block while the argument is loaded later: it went to the pool.
C18_Witness ==
    /\ Done
    /\ PosIn(F, idS1) < PosIn(F, idA)
    /\ \E b \in 1..Len(F.Blocks) : HasLoad(F, b, idA)
    /\ names[idR1] = NameX
    /\ F.Values[idS1].Type = NameX.Type
    /\ getHome(RegAlloc, idA) = NameX
    /\ idA \in interfere[idS1]
    /\ IsStackSlot(getHome(RegAlloc, idS1))
    /\ getHome(RegAlloc, idS1) # NameX

\* x and y interfere: by the interference lists stackalloc has built, by the
\* live ranges of two spill-class values, or x is an input argument of y's
\* type that can still be loaded where y is defined.
Interferes(fn, itf, pairs, x, y) ==
    \/ x \in itf[y]
    \/ <<x, y>> \in pairs
    \/ /\ x \in ArgValues(fn)
       /\ y \in SpillClass(fn)
       /\ fn.Values[x].Type = fn.Values[y].Type
       /\ LoadableAfter(fn, x, fn.Values[y].Block, PosIn(fn, y))

\* C19: when stackalloc has returned, the slot of a stack phi is the home of
\* no value that interferes with the phi or with one of its arguments.
C19_PhiSlotIsFreeOfInterferingValues ==
    Done =>
        LET pairs == InterferingPairs(F)
        IN  \A p \in StackPhis(F) : \A y \in {p} \cup ArgsOf(F, p) : \A x \in IDs :
                Interferes(F, interfere, pairs, x, y) =>
                    getHome(RegAlloc, x) # getHome(RegAlloc, p)

\* s1, stored and loaded back while the first phi argument waits for the end
\* of the entry block, interferes with that argument and not with the phi; it
\* took the name y, which the phi has too, and the phi went to the pool.
C19_Witness ==
    /\ Done
    /\ PosIn(F, idQ(1)) < PosIn(F, idS1)
    /\ F.Values[idQ(1)].Block = F.Values[idS1].Block
    /\ idS1 \in interfere[idQ(1)]
    /\ idS1 \notin interfere[idP]
    /\ names[idP] = NameY
    /\ getHome(RegAlloc, idS1) = NameY
    /\ IsStackSlot(getHome(RegAlloc, idP))
    /\ getHome(RegAlloc, idP) # NameY
    /\ getHome(RegAlloc, idQ(1)) = getHome(RegAlloc, idP)

\* The name recorded for value id: the last name of f.Names whose values
\* include id; NilLoc when no name does.
RecordedName(fn, id) ==
    LET Lists(i) == \E k \in 1..Len(fn.NamedValues[fn.Names[i]]) :
                        fn.NamedValues[fn.Names[i]][k] = id
        idx == {i \in 1..Len(fn.Names) : Lists(i)}
    IN  IF idx = {} THEN NilLoc
        ELSE fn.Names[CHOOSE i \in idx : \A k \in idx : k <= i]

\* The value whose name a spilled value v is tried with: what a StoreReg stores,
\* a stack phi itself.
SourceOf(fn, v) == IF fn.Values[v].Op = "StoreReg" THEN fn.Values[v].Args[1] ELSE v

Rivals(fn, itf, v) ==
    UNION {itf[y] : y \in {v} \cup (IF fn.Values[v].Op = "Phi" THEN ArgsOf(fn, v) ELSE {})}

\* C21: in every step of the slot-picking loop that takes the unnamed path, a
\* new slot is appended to the pool of the value's type exactly when every
\* slot of that pool is the home of an interfering value, and it becomes the
\* value's home; otherwise the pool is left as it is and the home is the
\* lowest-indexed slot of the pool that is the home of no interfering value.
C21_NewSlotOnlyWhenPoolIsExhausted ==
    [][(pc = "pick" /\ pc' = "pick" /\ slots' # slots) =>
          LET v == VS[NextPick]
              t == F.Values[v].Type
              locs == locations[t]
              Occupied(i) == \E x \in Rivals(F, interfere, v) : getHome(RegAlloc, x) = locs[i]
              free == {i \in 1..Len(locs) : ~Occupied(i)}
          IN  IF free = {}
              THEN /\ Len(locations'[t]) = Len(locs) + 1
                   /\ SubSeq(locations'[t], 1, Len(locs)) = locs
                   /\ \A i \in 1..Len(locs) : locations'[t][Len(locs) + 1] # locs[i]
                   /\ getHome(RegAlloc', v) = locations'[t][Len(locs) + 1]
              ELSE /\ locations' = locations
                   /\ getHome(RegAlloc', v) = locs[CHOOSE i \in free : \A k \in free : i <= k]]_vars

\* Both cases in one run: s2, interfering with s1, had a new slot appended
\* for it, and the phi, which interferes with s1 and not with s2, reused the
\* slot of s2, the lowest-indexed one that was free for it.
C21_Witness ==
    /\ Done
    /\ getHome(RegAlloc, idS1).N[1] = "auto"
    /\ getHome(RegAlloc, idS2).N[1] = "auto"
    /\ F.Values[idS1].Type = F.Values[idP].Type
    /\ F.Values[idS2].Type = F.Values[idP].Type
    /\ idS1 \in interfere[idS2]
    /\ getHome(RegAlloc, idS2) # getHome(RegAlloc, idS1)
    /\ idS1 \in Rivals(F, interfere, idP)
    /\ idS2 \notin Rivals(F, interfere, idP)
    /\ getHome(RegAlloc, idP) = getHome(RegAlloc, idS2)
    /\ locations[F.Values[idP].Type] =
          <<getHome(RegAlloc, idS1), getHome(RegAlloc, idS2)>>

\* What liveSpills returns when it visits the blocks in the order ord: sweeps
\* from the live sets lv on, until one changes nothing (at most n more).
RECURSIVE LiveSpillsIn(_, _, _, _, _)
LiveSpillsIn(fn, ra, ord, lv, n) ==
    LET r == SweepFrom(fn, ra, ord, 1, [live |-> lv, changed |-> FALSE])
    IN  IF r.changed /\ n > 0 THEN LiveSpillsIn(fn, ra, ord, r.live, n - 1) ELSE r.live

Reverse(sq) == [i \in 1..Len(sq) |-> sq[Len(sq) + 1 - i]]

\* C22: whatever the order in which liveSpills visits the blocks, it returns
\* (within the sweeps the model allows) the live sets it returns when it
\* visits them in postorder, and these are the least solution of the
\* backward dataflow equations: the values live on each edge.
C22_LiveSetsDoNotDependOnTheOrder ==
    /\ pc = "liveSpills" => sweeps < MaxSweeps
    /\ pc # "liveSpills" =>
          /\ live = LiveSpillsIn(F, RegAlloc, postorder(F), EmptyLive(F), MaxSweeps)
          /\ \A p \in 1..Len(F.Blocks) : \A j \in 1..Len(F.Blocks[p].Succs) :
                live[p][j] = LiveOnEdge(F, p, j)

\* liveSpills has returned after visiting the blocks of the loop in reverse
\* postorder, in three sweeps, with the input argument live around the loop.
C22_Witness ==
    /\ pc = "interfere"
    /\ visitOrder = Reverse(postorder(F))
    /\ visitOrder # postorder(F)
    /\ F.Blocks[3].Succs = <<2>>
    /\ sweeps >= 3
    /\ idA \in live[3][1]

----------------------------------------------------------------------------
(* More claims about the rewrite rules. *)

MemoryOps == {"MOVWload", "MOVWstore", "MOVWstorezero"}

\* v is a load or a store whose address is an ADDconst.
HasADDconstAddress(fn, v) ==
    OpOf(fn, v) \in MemoryOps /\ OpOf(fn, Arg(fn, v, 1)) = "ADDconst"

\* The displacement off1+off2 of v folded with its address.
FoldedOffset(fn, v) == Add64(AuxIntOf(fn, v), AuxIntOf(fn, Arg(fn, v, 1)))

\* rewriteValueMIPS folds the ADDconst that is the address of v into v: the
\* same op on the base of the ADDconst, with the sum as displacement.
FoldsADDconst(fn, v) ==
    LET r == rewriteValueMIPS(fn, v)
    IN  /\ r.fired
        /\ r.f.Values[v].Op = OpOf(fn, v)
        /\ r.f.Values[v].Args[1] = Arg(fn, Arg(fn, v, 1), 1)
        /\ r.f.Values[v].AuxInt = FoldedOffset(fn, v)

\* C23 as stated: an ADDconst is folded into the displacement of a load or a
\* store only when off1+off2 fits a signed 16-bit immediate.
C23_FoldedOnlyWhenOffsetFits ==
    pc \in {"rewrite", "fixpoint", "again", "settled"} =>
    \A v \in 1..Len(f.Values) :
        (HasADDconstAddress(f, v) /\ FoldsADDconst(f, v)) => FitsInt16(FoldedOffset(f, v))

\* C23: an ADDconst is folded into the displacement of a load or a store
\* exactly when off1+off2 fits a signed 16-bit immediate or the load or store
\* is the only use of the ADDconst.
C23_FoldedWhenOffsetFitsOrOnlyUse ==
    pc \in {"rewrite", "fixpoint", "again", "settled"} =>
    \A v \in 1..Len(f.Values) :
        HasADDconstAddress(f, v) =>
            (FoldsADDconst(f, v) <=>
                (FitsInt16(FoldedOffset(f, v)) \/ Uses(f, Arg(f, v, 1)) = 1))

\* A store to base+32767+4, the only use of its ADDconst, has the base as
\* address and the displacement 32771 when the rewriting is over.
C23_Witness ==
    /\ pc = "fixpoint"
    /\ \E v \in 1..Len(f0.Values) :
          /\ OpOf(f0, v) = "MOVWstore"
          /\ HasADDconstAddress(f0, v)
          /\ ~FitsInt16(FoldedOffset(f0, v))
          /\ FoldedOffset(f0, v) = Lit(32771)
          /\ Uses(f0, Arg(f0, v, 1)) = 1
          /\ OpOf(f, v) \in MemoryOps
          /\ AuxIntOf(f, v) = Lit(32771)
          /\ Arg(f, v, 1) = Arg(f0, Arg(f0, v, 1), 1)

\* v is SUB x (MOVWconst [c]).
IsSubByConst(fn, v) == OpOf(fn, v) = "SUB" /\ IsConst(fn, Arg(fn, v, 2))

\* C24 as stated: SUB x (MOVWconst [c]) is rewritten to the addition of the
\* negated constant, ADDconst [-c] x.
C24_SubByConstBecomesAddOfNegation ==
    pc \in {"rewrite", "fixpoint", "again", "settled"} =>
    \A v \in 1..Len(f.Values) :
        IsSubByConst(f, v) =>
            LET r == rewriteValueMIPS(f, v)
            IN  /\ r.fired
                /\ r.f.Values[v].Op = "ADDconst"
                /\ r.f.Values[v].AuxInt = SignExt32(Neg32(Lo(AuxIntOf(f, Arg(f, v, 2)))))
                /\ r.f.Values[v].Args = <<Arg(f, v, 1)>>

\* C24: SUB x (MOVWconst [c]) is rewritten to SUBconst [c] x, the constant
\* as it was and every other value untouched; and a SUBconst [c] x with c # 0
\* whose operand is not a MOVWconst, a SUBconst or an ADDconst is rewritten
\* by no rule, so it is not turned into an addition.
C24_SubByConstBecomesSUBconst ==
    pc \in {"rewrite", "fixpoint", "again", "settled"} =>
    \A v \in 1..Len(f.Values) :
        LET r == rewriteValueMIPS(f, v)
        IN  /\ IsSubByConst(f, v) =>
                  /\ r.fired
                  /\ ~r.panic
                  /\ r.f.Values[v].Op = "SUBconst"
                  /\ r.f.Values[v].AuxInt = AuxIntOf(f, Arg(f, v, 2))
                  /\ r.f.Values[v].Args = <<Arg(f, v, 1)>>
                  /\ \A w \in 1..Len(f.Values) : w # v => r.f.Values[w] = f.Values[w]
            /\ (/\ OpOf(f, v) = "SUBconst"
                /\ AuxIntOf(f, v) # Lit(0)
                /\ OpOf(f, Arg(f, v, 1)) \notin {"MOVWconst", "SUBconst", "ADDconst"}) =>
                  ~r.fired

\* x - 14 with x not a constant: the rewriting is over and the value is
\* SUBconst [14] x.
C24_Witness ==
    /\ pc = "fixpoint"
    /\ \E v \in 1..Len(f0.Values) :
          /\ IsSubByConst(f0, v)
          /\ ~IsConst(f0, Arg(f0, v, 1))
          /\ AuxIntOf(f0, Arg(f0, v, 2)) # Lit(0)
          /\ OpOf(f, v) = "SUBconst"
          /\ AuxIntOf(f, v) = AuxIntOf(f0, Arg(f0, v, 2))
          /\ f.Values[v].Args = <<Arg(f0, v, 1)>>

\* The rules of a Move or a Zero that match v, by position in the source: 0
\* is the rule of size 0, then come the rules of the table, and the generic
\* rule is last.
MatchingInOrder(rules, fn, v) ==
    LET s == AuxIntOf(fn, v)
        a == Alignment(fn.Values[v].Aux)
    IN  {i \in {0} : s = Lit(0)}
        \cup Matching(rules, s, a)
        \cup {i \in {Len(rules) + 1} : Over16(s) \/ a % 4 # 0}

\* The op and AuxInt that the rule at position i gives v.
OutcomeOf(rules, lowered, fn, v, i) ==
    IF i = 0 THEN <<"Copy", Lit(0)>>
    ELSE IF i <= Len(rules) THEN <<rules[i].st, Lit(rules[i].offs[1])>>
    ELSE <<lowered, Lit(Alignment(fn.Values[v].Aux))>>

\* The rules of MUL that match v, by position in the source, and the op
\* each gives v.
MULMatching(fn, v) ==
    LET x == Arg(fn, v, 1)
        y == Arg(fn, v, 2)
        IsK(k, w) == IsConst(fn, w) /\ AuxIntOf(fn, w) = Lit(k)
        IsPower(w) == IsConst(fn, w) /\ isPowerOfTwo(AuxIntOf(fn, w))
    IN  {i \in {1} : IsK(0, x) \/ IsK(0, y)}
        \cup {i \in {2} : IsK(1, x) \/ IsK(1, y)}
        \cup {i \in {3} : IsK(-1, x) \/ IsK(-1, y)}
        \cup {i \in {4} : IsPower(x) \/ IsPower(y)}
        \cup {i \in {5} : IsConst(fn, x) /\ IsConst(fn, y)}
MULOutcomeOp == <<"MOVWconst", "Copy", "NEG", "SLLconst", "MOVWconst">>

\* C25: when more than one rule of an op matches a value, the rewrite applied
\* is that of the first matching rule in source order: a Move, a Zero or a
\* MUL that some rules match gets the op (and, for Move and Zero, the
\* AuxInt) that the matching rule of the lowest position gives it.
C25_FirstMatchingRuleIsApplied ==
    pc \in {"rewrite", "fixpoint", "again", "settled"} =>
    \A v \in 1..Len(f.Values) :
        LET r == rewriteValueMIPS(f, v)
            rules == IF OpOf(f, v) = "Move" THEN MoveRules ELSE ZeroRules
            lowered == IF OpOf(f, v) = "Move" THEN "LoweredMove" ELSE "LoweredZero"
            ms == MatchingInOrder(rules, f, v)
            mm == MULMatching(f, v)
        IN  /\ (OpOf(f, v) \in {"Move", "Zero"} /\ ms # {}) =>
                  \E i \in ms :
                      /\ \A j \in ms : i <= j
                      /\ r.fired
                      /\ <<r.f.Values[v].Op, r.f.Values[v].AuxInt>>
                            = OutcomeOf(rules, lowered, f, v, i)
            /\ (OpOf(f, v) = "MUL" /\ mm # {}) =>
                  \E i \in mm :
                      /\ \A j \in mm : i <= j
                      /\ r.fired
                      /\ r.f.Values[v].Op = MULOutcomeOp[i]

\* A Move of 8 bytes of a type aligned to 2: the rule of halfword stores and
\* the generic rule both match, and the value has become the halfword store
\* at offset 6.
C25_Witness ==
    /\ pc = "fixpoint"
    /\ \E v \in 1..Len(f0.Values) :
          /\ OpOf(f0, v) = "Move"
          /\ AuxIntOf(f0, v) = Lit(8)
          /\ Alignment(f0.Values[v].Aux) = 2
          /\ Cardinality(MatchingInOrder(MoveRules, f0, v)) = 2
          /\ OpOf(f, v) = "MOVHstore"
          /\ AuxIntOf(f, v) = Lit(6)
          /\ Len(f.Values) = Len(f0.Values) + 7

CommutativeOps == {"ADD", "AND", "OR", "XOR", "NOR", "MUL"}
\* The op a commutative op with one constant operand is rewritten to.
ConstForm(op) ==
    CASE op = "ADD" -> "ADDconst" [] op = "AND" -> "ANDconst" [] op = "OR" -> "ORconst"
      [] op = "XOR" -> "XORconst" [] op = "NOR" -> "NORconst"
\* fn with the two arguments of v exchanged.
Swapped(fn, v) == [fn EXCEPT !.Values[v].Args = <<Arg(fn, v, 2), Arg(fn, v, 1)>>]

\* C26: a rule on a commutative op (ADD, AND, OR, XOR, NOR, MUL) matches its
\* operand pattern in either argument position: a value and the same value
\* with its operands exchanged are rewritten alike (a rule fires on both or
\* on neither, and gives both the same op); with a constant c as one operand
\* and another value x as the other, a rule that fires gives both orders the
\* same value, and for ADD, AND, OR, XOR and NOR a rule does fire and the
\* value is the constant form [c] x.
C26_RulesMatchInEitherArgumentPosition ==
    pc \in {"rewrite", "fixpoint", "again", "settled"} =>
    \A v \in 1..Len(f.Values) :
        OpOf(f, v) \in CommutativeOps =>
            LET r == rewriteValueMIPS(f, v)
                q == rewriteValueMIPS(Swapped(f, v), v)
                x == Arg(f, v, 1)
                y == Arg(f, v, 2)
                c == IF IsConst(f, x) THEN x ELSE y
                o == IF IsConst(f, x) THEN y ELSE x
            IN  /\ r.fired = q.fired
                /\ r.f.Values[v].Op = q.f.Values[v].Op
                /\ (IsConst(f, x) # IsConst(f, y)) =>
                      /\ r.fired => r.f.Values[v] = q.f.Values[v]
                      /\ OpOf(f, v) # "MUL" =>
                            /\ r.fired
                            /\ r.f.Values[v].Op = ConstForm(OpOf(f, v))
                            /\ r.f.Values[v].AuxInt = AuxIntOf(f, c)
                            /\ r.f.Values[v].Args = <<o>>

\* ADD (MOVWconst [c]) x, the constant first: the rewriting is over and the
\* value is ADDconst [c] x.
C26_Witness ==
    /\ pc = "fixpoint"
    /\ \E v \in 1..Len(f0.Values) :
          /\ OpOf(f0, v) = "ADD"
          /\ IsConst(f0, Arg(f0, v, 1))
          /\ ~IsConst(f0, Arg(f0, v, 2))
          /\ AuxIntOf(f0, Arg(f0, v, 1)) # Lit(0)
          /\ OpOf(f, v) = "ADDconst"
          /\ AuxIntOf(f, v) = AuxIntOf(f0, Arg(f0, v, 1))
          /\ f.Values[v].Args = <<Arg(f0, v, 2)>>

\* The stores of the chain that starts at the store v, down to the memory
\* the last one takes: each is a store of chainOp whose memory argument is
\* the next.
RECURSIVE ChainLength(_, _, _, _)
ChainLength(fn, v, stores, fuel) ==
    IF fuel = 0 \/ OpOf(fn, v) \notin stores THEN 0
    ELSE 1 + ChainLength(fn, Arg(fn, v, Len(fn.Values[v].Args)), stores, fuel - 1)
TypedStores ==
    {"MOVBstore", "MOVHstore", "MOVWstore", "MOVBstorezero", "MOVHstorezero", "MOVWstorezero"}

UnmatchedSizes == {5, 7, 9, 10, 11, 13, 14, 15}

IsPrefix(xs, ys) == Len(xs) <= Len(ys) /\ SubSeq(ys, 1, Len(xs)) = xs

\* C28: firing a rewrite rule never removes a value from the graph: over
\* every step of the rewriting each value keeps its ID and its block (it is
\* overwritten in place), no value and no block disappears, and each block
\* still lists every value it listed, in the same order, values made by
\* rules coming after them; so a value that is no longer used stays in its
\* block.
C28_RulesNeverRemoveAValue ==
    [][/\ Len(f'.Values) >= Len(f.Values)
       /\ Len(f'.Blocks) = Len(f.Blocks)
       /\ \A v \in 1..Len(f.Values) :
             /\ f'.Values[v].ID = f.Values[v].ID
             /\ f'.Values[v].Block = f.Values[v].Block
       /\ \A b \in 1..Len(f.Blocks) : IsPrefix(f.Blocks[b].Values, f'.Blocks[b].Values)
       /\ \A v \in (Len(f.Values) + 1)..Len(f'.Values) :
             /\ f'.Values[v].ID = v
             /\ \E k \in 1..Len(f'.Blocks[f'.Values[v].Block].Values) :
                   f'.Blocks[f'.Values[v].Block].Values[k] = v]_vars

\* The rewriting is over, rules have fired, and a value that was used before
\* is used by nothing now and is still listed in its block.
C28_Witness ==
    /\ pc = "fixpoint"
    /\ \E x \in 1..Len(f0.Values) :
          /\ Uses(f0, x) > 0
          /\ Uses(f, x) = 0
          /\ f.Values[x] = f0.Values[x]
          /\ \E k \in 1..Len(f.Blocks[f.Values[x].Block].Values) :
                f.Blocks[f.Values[x].Block].Values[k] = x

\* What a comparison with AuxInt c computes of the 32-bit operand x, as the
\* rules that fold it on a constant operand compute it.
TestResult(op, c, x) ==
    CASE op = "SGTUconst" -> IF LessU32(x, Lo(c)) THEN 1 ELSE 0
      [] op = "SGTUzero" -> IF x # 0 THEN 1 ELSE 0
      [] op = "SGTconst" -> IF Lo(c) > x THEN 1 ELSE 0
      [] op = "SGTzero" -> IF x > 0 THEN 1 ELSE 0

\* Whether the control t of a block is one of the four comparisons that the
\* block rules replace by their operand.
IsReplacedTest(fn, t) ==
    \/ OpOf(fn, t) = "SGTUconst" /\ AuxIntOf(fn, t) = Lit(1)
    \/ OpOf(fn, t) = "SGTUzero"
    \/ OpOf(fn, t) = "SGTconst" /\ AuxIntOf(fn, t) = Lit(0)
    \/ OpOf(fn, t) = "SGTzero"

\* The kind the block gets: EQ of the four comparisons branches as NE, EQ,
\* GEZ, LEZ of the operand and NE of them as EQ, NE, LTZ, GTZ.
KindOnOperand(kind, op) ==
    CASE op = "SGTUconst" -> IF kind = "EQ" THEN "NE" ELSE "EQ"
      [] op = "SGTUzero" -> kind
      [] op = "SGTconst" -> IF kind = "EQ" THEN "GEZ" ELSE "LTZ"
      [] op = "SGTzero" -> IF kind = "EQ" THEN "LEZ" ELSE "GTZ"

\* C29: each block rule that replaces a comparison control by the
\* comparison's operand keeps the successor taken for every 32-bit value x
\* (here the constants of the pool, which hold both ends of the range, 0 and
\* its neighbours): an EQ or NE block whose control is SGTUconst [1] x,
\* SGTUzero x, SGTconst [0] x or SGTzero x becomes the block of the listed
\* kind on x, with its successors in the same order, and the new kind takes
\* the first successor on x exactly when the old kind took it on the result
\* of the comparison.
C29_ComparisonFoldedIntoKindKeepsSuccessor ==
    pc \in {"rewrite", "fixpoint", "again", "settled"} =>
    \A b \in BlockIDs(f) :
        (/\ f.Blocks[b].Kind \in {"EQ", "NE"}
         /\ HasControl(f, b)
         /\ IsReplacedTest(f, f.Blocks[b].Controls[1])) =>
            LET t == f.Blocks[b].Controls[1]
                kind == f.Blocks[b].Kind
                r == rewriteBlockMIPS(f, b)
                new == r.f.Blocks[b]
            IN  /\ r.fired
                /\ new.Kind = KindOnOperand(kind, OpOf(f, t))
                /\ new.Controls = <<Arg(f, t, 1)>>
                /\ new.Succs = f.Blocks[b].Succs
                /\ \A x \in Consts :
                      Taken(new.Kind, Lit(x))
                          = Taken(kind, Lit(TestResult(OpOf(f, t), AuxIntOf(f, t), x)))

\* EQ (SGTconst [0] x) with x not a constant: the rewriting is over and the
\* block is GEZ x with the successors it had.
C29_Witness ==
    /\ pc = "fixpoint"
    /\ \E b \in BlockIDs(f0) :
          /\ f0.Blocks[b].Kind = "EQ"
          /\ HasControl(f0, b)
          /\ OpOf(f0, f0.Blocks[b].Controls[1]) = "SGTconst"
          /\ AuxIntOf(f0, f0.Blocks[b].Controls[1]) = Lit(0)
          /\ ~IsConst(f0, Arg(f0, f0.Blocks[b].Controls[1], 1))
          /\ f.Blocks[b].Kind = "GEZ"
          /\ f.Blocks[b].Controls = <<Arg(f0, f0.Blocks[b].Controls[1], 1)>>
          /\ f.Blocks[b].Succs = f0.Blocks[b].Succs

\* The AuxInt c is the sign extension of a 32-bit integer.
IsSignExtended(c) == c = SignExt32(Lo(c))

\* C30 as stated: every MOVWconst value produced by a constant-folding rule
\* has an AuxInt that is the sign extension of a 32-bit integer, i.e. lies
\* between -2^31 and 2^31-1: whenever a rule turns a machine op into a
\* MOVWconst, the AuxInt it writes is sign-extended.
C30_FoldedConstantIsSignExtended ==
    pc \in {"rewrite", "fixpoint", "again", "settled"} =>
    \A v \in 1..Len(f.Values) :
        LET r == rewriteValueMIPS(f, v)
        IN  (r.fired /\ ~r.panic /\ OpOf(f, v) # "MOVWconst" /\ r.f.Values[v].Op = "MOVWconst") =>
                IsSignExtended(r.f.Values[v].AuxInt)

============================================================================
